---- MODULE Spec2Model ----
(***************************************************************************)
(* Model of the hybrid text-analysis pipeline of the audiobook pipeline    *)
(* (src/services/text-analyzer/app).                                       *)
(*                                                                         *)
(* Text representation.  A Python str is modelled as a sequence of lexical *)
(* tokens.  A token is either one alphabetic word ("Anna", "said", ...) or *)
(* one non-letter character (space, newline, full stop, a quote mark).     *)
(* TokLen gives the number of characters of a token, so len(), character   *)
(* offsets and the merge cap are counted in characters as in the source.   *)
(* The splitter only cuts a text at quote marks, at newlines and at        *)
(* leading/trailing whitespace, all of which are tokens of their own, so   *)
(* every slice the source takes falls on a token boundary.  Two word       *)
(* tokens with nothing between them read as one longer alphabetic word.    *)
(***************************************************************************)
EXTENDS Integers, Sequences, FiniteSets, TLC

\* ------------------------------------------------------------------------
\* Characters and words
\* ------------------------------------------------------------------------
SP    == " "
NL    == "NL"
DOT   == "."
STRAIGHT_DOUBLE == "DQUOTE"
LDQUO == "LDQUO"
RDQUO == "RDQUO"
LAQUO == "LAQUO"
RAQUO == "RAQUO"

OPEN_QUOTES  == {LDQUO, LAQUO}
CLOSE_QUOTES == {RDQUO, RAQUO}

\* Words the texts of the model are written with.
WordTokens == {"Anna", "Ben", "said", "he", "she", "the", "but", "word", "longword"}

TokLen(c) ==
    CASE c = "Anna" -> 4
      [] c = "Ben" -> 3
      [] c = "said" -> 4
      [] c = "he" -> 2
      [] c = "she" -> 3
      [] c = "the" -> 3
      [] c = "but" -> 3
      [] c = "word" -> 4
      [] c = "longword" -> 400
      [] OTHER -> 1

IsWord(c) == c \in WordTokens
IsSpace(c) == c \in {SP, NL}

\* Letters, digits and sentence punctuation: every word ends in a letter.
_CLOSING_CONTEXT == WordTokens \cup {DOT}

RECURSIVE StrLen(_)
StrLen(s) == IF s = <<>> THEN 0 ELSE TokLen(Head(s)) + StrLen(Tail(s))

\* s[a:b] on token positions, 0-based and half-open like a Python slice.
Slice(s, a, b) == IF b <= a THEN <<>> ELSE SubSeq(s, a + 1, b)

\* Character offset of token position k (0-based) in s.
CharOff(s, k) == StrLen(Slice(s, 0, k))

RECURSIVE LStrip(_)
LStrip(s) == IF s /= <<>> /\ IsSpace(Head(s)) THEN LStrip(Tail(s)) ELSE s

RECURSIVE RStrip(_)
RStrip(s) ==
    IF s /= <<>> /\ IsSpace(s[Len(s)]) THEN RStrip(SubSeq(s, 1, Len(s) - 1)) ELSE s

Strip(s) == RStrip(LStrip(s))

\* sep.join(parts)
RECURSIVE Join(_, _)
Join(parts, sep) ==
    IF parts = <<>> THEN <<>>
    ELSE IF Len(parts) = 1 THEN parts[1]
    ELSE parts[1] \o sep \o Join(Tail(parts), sep)

\* ------------------------------------------------------------------------
\* models.py
\* ------------------------------------------------------------------------
ALLOWED_EMOTIONS ==
    {"neutral", "happy", "sad", "angry", "fearful", "excited", "tense", "contemplative"}

Narrator == <<"narrator">>
Unknown  == <<"unknown">>

\* Intensities are kept in hundredths (0.5 is 50), which is also the
\* precision of round(intensity, 2) in the output.
DefaultIntensity == 50

Segment(id, kind, txt, para, cstart, cend) ==
    [id |-> id, kind |-> kind, original_text |-> txt,
     speaker |-> IF kind = "narration" THEN Narrator ELSE Unknown,
     attribution_source |-> "none", emotion |-> "neutral",
     intensity |-> DefaultIntensity, pause_before_ms |-> 0,
     paragraph_index |-> para, char_offset_start |-> cstart,
     char_offset_end |-> cend]

\* ------------------------------------------------------------------------
\* Node 1: segment_splitter.py
\* ------------------------------------------------------------------------
RECURSIVE _split_paragraphs_from(_, _)
_split_paragraphs_from(text, cur) ==
    IF text = <<>> THEN <<cur>>
    ELSE IF Head(text) = NL THEN <<cur>> \o _split_paragraphs_from(Tail(text), <<>>)
    ELSE _split_paragraphs_from(Tail(text), Append(cur, Head(text)))

\* text.split("\n"): the empty text gives one empty paragraph.
_split_paragraphs(text) == _split_paragraphs_from(text, <<>>)

_is_closing_straight_quote(text, pos) ==
    IF pos = 0 THEN FALSE ELSE text[pos] \in _CLOSING_CONTEXT

\* The while loop of _extract_quote_spans; i, span_start and
\* dialogue_text_start are 0-based token positions, text[i + 1] is text[i]
\* of the source.
RECURSIVE _quote_loop(_, _, _, _, _, _)
_quote_loop(text, i, state, span_start, dialogue_text_start, spans) ==
    IF i >= Len(text) THEN
        \* Flush remaining text.
        IF span_start < Len(text) THEN
            IF state = "dialogue" THEN
                Append(spans, [start |-> span_start, end |-> Len(text), kind |-> "dialogue",
                               raw |-> Slice(text, dialogue_text_start, Len(text))])
            ELSE
                Append(spans, [start |-> span_start, end |-> Len(text), kind |-> "narration",
                               raw |-> Slice(text, span_start, Len(text))])
        ELSE spans
    ELSE
        LET ch == text[i + 1] IN
        IF state = "narration" THEN
            IF ch \in OPEN_QUOTES
               \/ (ch = STRAIGHT_DOUBLE /\ ~_is_closing_straight_quote(text, i)) THEN
                _quote_loop(text, i + 1, "dialogue", i, i + 1,
                    IF i > span_start
                    THEN Append(spans, [start |-> span_start, end |-> i, kind |-> "narration",
                                        raw |-> Slice(text, span_start, i)])
                    ELSE spans)
            ELSE _quote_loop(text, i + 1, state, span_start, dialogue_text_start, spans)
        ELSE
            IF ch \in CLOSE_QUOTES
               \/ (ch = STRAIGHT_DOUBLE /\ _is_closing_straight_quote(text, i)) THEN
                _quote_loop(text, i + 1, "narration", i + 1, dialogue_text_start,
                    Append(spans, [start |-> span_start, end |-> i + 1, kind |-> "dialogue",
                                   raw |-> Slice(text, dialogue_text_start, i)]))
            ELSE _quote_loop(text, i + 1, state, span_start, dialogue_text_start, spans)

\* Variant in which a paragraph begins inside a quotation.
_extract_quote_spans_in_dialogue(text) == _quote_loop(text, 0, "dialogue", 0, 0, <<>>)

_extract_quote_spans(text) == _quote_loop(text, 0, "narration", 0, 0, <<>>)

\* The inner loop of split_segments over the spans of one paragraph.
RECURSIVE _paragraph_segments(_, _, _, _, _)
_paragraph_segments(paragraph, spans, para_idx, global_offset, segs) ==
    IF spans = <<>> THEN segs
    ELSE LET sp == Head(spans)
             stripped == Strip(sp.raw)
         IN _paragraph_segments(paragraph, Tail(spans), para_idx, global_offset,
                IF stripped = <<>> THEN segs
                ELSE Append(segs, Segment(Len(segs) + 1, sp.kind, stripped, para_idx,
                                global_offset + CharOff(paragraph, sp.start),
                                global_offset + CharOff(paragraph, sp.end))))

\* Variant of the loop below that never advances global_offset: offsets
\* count from the start of the paragraph.
RECURSIVE _split_loop_paragraph_offsets(_, _, _, _)
_split_loop_paragraph_offsets(paragraphs, para_idx, global_offset, segs) ==
    IF para_idx >= Len(paragraphs) THEN segs
    ELSE LET paragraph == paragraphs[para_idx + 1] IN
         IF Strip(paragraph) = <<>> THEN
            _split_loop_paragraph_offsets(paragraphs, para_idx + 1, global_offset, segs)
         ELSE
            _split_loop_paragraph_offsets(paragraphs, para_idx + 1, global_offset,
                _paragraph_segments(paragraph, _extract_quote_spans(paragraph),
                                    para_idx, global_offset, segs))

\* The outer loop of split_segments over the paragraphs; seg_id is always
\* len(segments) + 1.
RECURSIVE _split_loop(_, _, _, _)
_split_loop(paragraphs, para_idx, global_offset, segs) ==
    IF para_idx >= Len(paragraphs) THEN segs
    ELSE LET paragraph == paragraphs[para_idx + 1] IN
         IF Strip(paragraph) = <<>> THEN
            _split_loop(paragraphs, para_idx + 1, global_offset + StrLen(paragraph) + 1, segs)
         ELSE
            _split_loop(paragraphs, para_idx + 1, global_offset + StrLen(paragraph) + 1,
                _paragraph_segments(paragraph, _extract_quote_spans(paragraph),
                                    para_idx, global_offset, segs))

\* Variant of the loop below that leaves char_offset_end of the extended
\* segment as it was.
RECURSIVE _merge_loop_keep_end(_, _, _)
_merge_loop_keep_end(segs, merged, max_chars) ==
    IF segs = <<>> THEN merged
    ELSE LET seg == Head(segs)
             prev == merged[Len(merged)]
         IN IF prev.kind = "narration" /\ seg.kind = "narration"
               /\ StrLen(prev.original_text) + StrLen(seg.original_text) + 1 <= max_chars
            THEN _merge_loop_keep_end(Tail(segs),
                    [merged EXCEPT ![Len(merged)] =
                        [prev EXCEPT !.original_text = prev.original_text \o <<NL>> \o seg.original_text]],
                    max_chars)
            ELSE _merge_loop_keep_end(Tail(segs), Append(merged, seg), max_chars)

RECURSIVE _merge_loop(_, _, _)
_merge_loop(segs, merged, max_chars) ==
    IF segs = <<>> THEN merged
    ELSE LET seg == Head(segs)
             prev == merged[Len(merged)]
         IN IF prev.kind = "narration" /\ seg.kind = "narration"
               /\ StrLen(prev.original_text) + StrLen(seg.original_text) + 1 <= max_chars
            THEN _merge_loop(Tail(segs),
                    [merged EXCEPT ![Len(merged)] =
                        [prev EXCEPT !.original_text = prev.original_text \o <<NL>> \o seg.original_text,
                                     !.char_offset_end = seg.char_offset_end]],
                    max_chars)
            ELSE _merge_loop(Tail(segs), Append(merged, seg), max_chars)

\* Variant: the merged list keeps the ids the segments were created with.
_merge_consecutive_narration_keep_ids(segs, max_chars) ==
    IF segs = <<>> THEN segs
    ELSE _merge_loop(Tail(segs), <<Head(segs)>>, max_chars)

_merge_consecutive_narration(segs, max_chars) ==
    IF segs = <<>> THEN segs
    ELSE LET merged == _merge_loop(Tail(segs), <<Head(segs)>>, max_chars)
         IN [i \in 1..Len(merged) |-> [merged[i] EXCEPT !.id = i]]

split_segments(text) ==
    _merge_consecutive_narration(_split_loop(_split_paragraphs(text), 0, 0, <<>>), 800)

\* ------------------------------------------------------------------------
\* Node 2: explicit_attribution.py
\* ------------------------------------------------------------------------
\* The members of _NON_NAMES that are words of the model.
_NON_NAMES == {"the", "but"}

_MALE_PRONOUNS   == {"he"}
_FEMALE_PRONOUNS == {"she"}

\* data/speech_verbs.txt, one verb per line.
_get_speech_verbs == {"said"}

\* Regular-expression primitives on token positions (1-based).
\* \b before position i / after position i.
BoundaryBefore(s, i) == i = 1 \/ ~IsWord(s[i - 1])
BoundaryAfter(s, i)  == i = Len(s) \/ ~IsWord(s[i + 1])

\* [A-Z][a-z]+ under re.IGNORECASE started at i: the whole run of letters.
RECURSIVE WordEndFrom(_, _)
WordEndFrom(s, i) ==
    IF i < Len(s) /\ IsWord(s[i + 1]) THEN WordEndFrom(s, i + 1) ELSE i

\* \s+ after position i: the position after the run of whitespace, 0 when
\* there is no whitespace at i + 1.
RECURSIVE SkipSpaces(_, _)
SkipSpaces(s, k) ==
    IF k <= Len(s) /\ IsSpace(s[k]) THEN SkipSpaces(s, k + 1) ELSE k

SpacesThenWord(s, i) ==
    IF i < Len(s) /\ IsSpace(s[i + 1])
    THEN LET k == SkipSpaces(s, i + 1)
         IN IF k <= Len(s) /\ IsWord(s[k]) THEN k ELSE 0
    ELSE 0

\* (?:the\s+)?[A-Z][a-z]+(?:\s+[A-Z][a-z]+)* started at word position k,
\* greedy: the end of the last word of the run of whitespace-separated words.
RECURSIVE NameEndFrom(_, _)
NameEndFrom(s, k) ==
    LET e == WordEndFrom(s, k)
        n == SpacesThenWord(s, e)
    IN IF n = 0 THEN e ELSE NameEndFrom(s, n)

\* a verb of the list matched as (verb) at position i
IsVerbAt(s, i) == i >= 1 /\ i <= Len(s) /\ s[i] \in _get_speech_verbs

\* The position of the last verb v of the run of words started at k such
\* that the regex NAME\s+(verb)\b matches with NAME started at `from`:
\* v is reached from a word end by whitespace and followed by \b.
RECURSIVE LastVerbAfter(_, _, _)
LastVerbAfter(s, k, found) ==
    LET e == WordEndFrom(s, k)
        n == SpacesThenWord(s, e)
    IN IF n = 0 THEN found
       ELSE LastVerbAfter(s, n, IF IsVerbAt(s, n) /\ BoundaryAfter(s, n) THEN n ELSE found)

\* candidate handling of _try_named_match; <<>> stands for a rejected one.
Candidate(group) ==
    LET stripped == Strip(group)
        candidate == IF Len(stripped) >= 2 /\ stripped[1] = "the" /\ stripped[2] = SP
                     THEN Slice(stripped, 2, Len(stripped)) ELSE stripped
    IN IF Len(candidate) = 1 /\ candidate[1] \in _NON_NAMES THEN <<>>
       ELSE IF StrLen(candidate) < 2 THEN <<>>
       ELSE candidate

\* _try_named_match(text, pat_verb_name, group_idx=2), scanning from pos.
RECURSIVE _try_verb_name(_, _)
_try_verb_name(s, pos) ==
    IF pos > Len(s) THEN <<>>
    ELSE IF IsVerbAt(s, pos) /\ BoundaryBefore(s, pos) /\ SpacesThenWord(s, pos) /= 0 THEN
        LET k == SpacesThenWord(s, pos)
            e == NameEndFrom(s, k)
            c == Candidate(SubSeq(s, k, e))
        IN IF c /= <<>> THEN c ELSE _try_verb_name(s, e + 1)
    ELSE _try_verb_name(s, pos + 1)

\* _try_named_match(text, pat_name_verb, group_idx=1), scanning from pos.
RECURSIVE _try_name_verb(_, _)
_try_name_verb(s, pos) ==
    IF pos > Len(s) THEN <<>>
    ELSE IF IsWord(s[pos]) /\ LastVerbAfter(s, pos, 0) /= 0 THEN
        LET v == LastVerbAfter(s, pos, 0)
            e == CHOOSE j \in pos..v : IsWord(s[j]) /\ SpacesThenWord(s, j) = v
            c == Candidate(SubSeq(s, pos, e))
        IN IF c /= <<>> THEN c ELSE _try_name_verb(s, v + 1)
    ELSE _try_name_verb(s, pos + 1)

Pronouns == {"he", "she"}

\* _try_pronoun_match; <<>> stands for None.
_try_pronoun_match(s) ==
    LET C == {i \in 1..Len(s) : /\ s[i] \in Pronouns /\ BoundaryBefore(s, i)
                                /\ SpacesThenWord(s, i) /= 0
                                /\ IsVerbAt(s, SpacesThenWord(s, i))
                                /\ BoundaryAfter(s, SpacesThenWord(s, i))}
        D == {i \in 1..Len(s) : /\ IsVerbAt(s, i) /\ BoundaryBefore(s, i)
                                /\ SpacesThenWord(s, i) /= 0
                                /\ s[SpacesThenWord(s, i)] \in Pronouns
                                /\ BoundaryAfter(s, SpacesThenWord(s, i))}
        min(S) == CHOOSE x \in S : \A y \in S : x <= y
    IN IF C /= {} THEN <<s[min(C)]>>
       ELSE IF D /= {} THEN <<s[SpacesThenWord(s, min(D))]>>
       ELSE <<>>

\* The adjacent narration text gathered for segment i.
ExplicitContext(segs, i) ==
    LET before == IF i > 1 /\ segs[i - 1].kind = "narration"
                  THEN <<segs[i - 1].original_text>> ELSE <<>>
        after  == IF i < Len(segs) /\ segs[i + 1].kind = "narration"
                  THEN <<segs[i + 1].original_text>> ELSE <<>>
    IN before \o after

\* One iteration of the loop of attribute_explicit.  An iteration reads the
\* kind and text of the neighbours and writes the segment itself only.
_attribute_one(segs, i) ==
    LET seg == segs[i]
        context_parts == ExplicitContext(segs, i)
        context == Join(context_parts, <<SP>>)
        nameA == _try_verb_name(context, 1)
        name == IF nameA /= <<>> THEN nameA ELSE _try_name_verb(context, 1)
        pronoun == _try_pronoun_match(context)
    IN IF seg.kind /= "dialogue" \/ seg.speaker /= Unknown THEN seg
       ELSE IF context_parts = <<>> THEN seg
       ELSE IF name /= <<>> THEN [seg EXCEPT !.speaker = name, !.attribution_source = "explicit"]
       ELSE IF pronoun /= <<>> THEN
            [seg EXCEPT !.attribution_source =
                IF pronoun[1] \in _MALE_PRONOUNS THEN "pronoun_male" ELSE "pronoun_female"]
       ELSE seg

attribute_explicit(segs) == [i \in 1..Len(segs) |-> _attribute_one(segs, i)]

\* ------------------------------------------------------------------------
\* Node 3: turn_taking.py
\* ------------------------------------------------------------------------
_NARRATION_GAP_RESET == 2

\* " he " in text_lower: the word between two space characters.
ContainsSpaced(txt, words) ==
    \E i \in 1..(Len(txt) - 2) : txt[i] = SP /\ txt[i + 1] \in words /\ txt[i + 2] = SP

MaleWords   == {"he", "his", "him"}
FemaleWords == {"she", "her", "hers"}

\* The gender-inference loop of _resolve_pronouns: known is the dict
\* known_speakers (a function name -> gender, "" for None); the loop runs
\* over i, and for each i over j in (i - 1, i + 1); the last write wins.
GenderAt(segs, j, old) ==
    IF j >= 1 /\ j <= Len(segs) /\ segs[j].kind = "narration" THEN
        IF ContainsSpaced(segs[j].original_text, MaleWords) THEN "male"
        ELSE IF ContainsSpaced(segs[j].original_text, FemaleWords) THEN "female"
        ELSE old
    ELSE old

RECURSIVE _infer_genders(_, _, _)
_infer_genders(segs, i, known) ==
    IF i > Len(segs) THEN known
    ELSE LET seg == segs[i] IN
         IF seg.attribution_source = "explicit" /\ seg.speaker \in DOMAIN known THEN
            _infer_genders(segs, i + 1,
                [known EXCEPT ![seg.speaker] =
                    GenderAt(segs, i + 1, GenderAt(segs, i - 1, known[seg.speaker]))])
         ELSE _infer_genders(segs, i + 1, known)

known_speakers(segs) ==
    LET names == {segs[i].speaker : i \in {k \in 1..Len(segs) :
                     segs[k].attribution_source = "explicit" /\ segs[k].speaker /= Narrator}}
    IN _infer_genders(segs, 1, [n \in names |-> ""])

_resolve_pronouns(segs) ==
    LET known == known_speakers(segs)
        resolve(seg) ==
            IF seg.attribution_source \in {"pronoun_male", "pronoun_female"} THEN
                LET gender == IF seg.attribution_source = "pronoun_male" THEN "male" ELSE "female"
                    candidates == {n \in DOMAIN known : known[n] = gender}
                IN IF Cardinality(candidates) = 1
                   THEN [seg EXCEPT !.speaker = CHOOSE n \in candidates : TRUE,
                                    !.attribution_source = "turn_taking"]
                   ELSE seg
            ELSE seg
    IN [i \in 1..Len(segs) |-> resolve(segs[i])]

\* The loop of _alternate_speakers from segment i on.
RECURSIVE _alternate_loop(_, _, _, _)
_alternate_loop(segs, i, conv_speakers, narration_streak) ==
    IF i > Len(segs) THEN segs
    ELSE LET seg == segs[i] IN
         IF seg.kind = "narration" THEN
            _alternate_loop(segs, i + 1,
                IF narration_streak + 1 >= _NARRATION_GAP_RESET THEN <<>> ELSE conv_speakers,
                narration_streak + 1)
         ELSE IF seg.kind = "dialogue" THEN
            IF seg.speaker /= Unknown /\ seg.attribution_source /= "none" THEN
                _alternate_loop(segs, i + 1,
                    IF conv_speakers = <<>> \/ conv_speakers[Len(conv_speakers)] /= seg.speaker
                    THEN Append(conv_speakers, seg.speaker) ELSE conv_speakers,
                    0)
            ELSE IF Len(conv_speakers) >= 2 THEN
                LET last == conv_speakers[Len(conv_speakers)]
                    second_last == conv_speakers[Len(conv_speakers) - 1]
                    assigned == IF last = conv_speakers[Len(conv_speakers)] THEN second_last ELSE last
                IN _alternate_loop(
                       [segs EXCEPT ![i] = [seg EXCEPT !.speaker = assigned,
                                                       !.attribution_source = "turn_taking"]],
                       i + 1, Append(conv_speakers, assigned), 0)
            ELSE _alternate_loop(segs, i + 1, conv_speakers, 0)
         ELSE _alternate_loop(segs, i + 1, conv_speakers, 0)

\* Variant of the loop that takes the other branch of the alternation and
\* repeats the most recent speaker.
RECURSIVE _alternate_loop_repeat_last(_, _, _, _)
_alternate_loop_repeat_last(segs, i, conv_speakers, narration_streak) ==
    IF i > Len(segs) THEN segs
    ELSE LET seg == segs[i] IN
         IF seg.kind = "narration" THEN
            _alternate_loop_repeat_last(segs, i + 1,
                IF narration_streak + 1 >= _NARRATION_GAP_RESET THEN <<>> ELSE conv_speakers,
                narration_streak + 1)
         ELSE IF seg.speaker /= Unknown /\ seg.attribution_source /= "none" THEN
            _alternate_loop_repeat_last(segs, i + 1,
                IF conv_speakers = <<>> \/ conv_speakers[Len(conv_speakers)] /= seg.speaker
                THEN Append(conv_speakers, seg.speaker) ELSE conv_speakers,
                0)
         ELSE IF Len(conv_speakers) >= 2 THEN
            LET assigned == conv_speakers[Len(conv_speakers)]
            IN _alternate_loop_repeat_last(
                   [segs EXCEPT ![i] = [seg EXCEPT !.speaker = assigned,
                                                   !.attribution_source = "turn_taking"]],
                   i + 1, Append(conv_speakers, assigned), 0)
         ELSE _alternate_loop_repeat_last(segs, i + 1, conv_speakers, 0)

\* Variant of the loop without the `continue` of the known-speaker branch:
\* a known speaker is recorded and then goes through the alternation too.
RECURSIVE _alternate_loop_fallthrough(_, _, _, _)
_alternate_loop_fallthrough(segs, i, conv_speakers, narration_streak) ==
    IF i > Len(segs) THEN segs
    ELSE LET seg == segs[i] IN
         IF seg.kind = "narration" THEN
            _alternate_loop_fallthrough(segs, i + 1,
                IF narration_streak + 1 >= _NARRATION_GAP_RESET THEN <<>> ELSE conv_speakers,
                narration_streak + 1)
         ELSE
            LET known == seg.speaker /= Unknown /\ seg.attribution_source /= "none"
                conv == IF known /\ (conv_speakers = <<>>
                                     \/ conv_speakers[Len(conv_speakers)] /= seg.speaker)
                        THEN Append(conv_speakers, seg.speaker) ELSE conv_speakers
            IN IF Len(conv) >= 2 THEN
                  LET assigned == conv[Len(conv) - 1]
                  IN _alternate_loop_fallthrough(
                         [segs EXCEPT ![i] = [seg EXCEPT !.speaker = assigned,
                                                         !.attribution_source = "turn_taking"]],
                         i + 1, Append(conv, assigned), 0)
               ELSE _alternate_loop_fallthrough(segs, i + 1, conv, 0)

_alternate_speakers_fallthrough(segs) == _alternate_loop_fallthrough(segs, 1, <<>>, 0)

_alternate_speakers_repeat_last(segs) == _alternate_loop_repeat_last(segs, 1, <<>>, 0)

_alternate_speakers(segs) == _alternate_loop(segs, 1, <<>>, 0)

\* The value of conv_speakers at the moment the loop of _alternate_speakers
\* meets each segment, from segment i on.  An iteration reads the segment it
\* meets, which no earlier iteration has written, and conv_speakers.
RECURSIVE _conv_speakers(_, _, _, _)
_conv_speakers(segs, i, conv_speakers, narration_streak) ==
    IF i > Len(segs) THEN <<>>
    ELSE LET seg == segs[i] IN
         <<conv_speakers>> \o
         (IF seg.kind = "narration" THEN
            _conv_speakers(segs, i + 1,
                IF narration_streak + 1 >= _NARRATION_GAP_RESET THEN <<>> ELSE conv_speakers,
                narration_streak + 1)
          ELSE IF seg.speaker /= Unknown /\ seg.attribution_source /= "none" THEN
            _conv_speakers(segs, i + 1,
                IF conv_speakers = <<>> \/ conv_speakers[Len(conv_speakers)] /= seg.speaker
                THEN Append(conv_speakers, seg.speaker) ELSE conv_speakers,
                0)
          ELSE IF Len(conv_speakers) >= 2 THEN
            _conv_speakers(segs, i + 1,
                Append(conv_speakers, conv_speakers[Len(conv_speakers) - 1]), 0)
          ELSE _conv_speakers(segs, i + 1, conv_speakers, 0))

apply_turn_taking(segs) == _alternate_speakers(_resolve_pronouns(segs))

\* ------------------------------------------------------------------------
\* Node 4: character_registry.py
\* ------------------------------------------------------------------------
\* re.search of \b(he|him|his)\b: the word standing alone.
ContainsWord(txt, words) ==
    \E i \in 1..Len(txt) : txt[i] \in words /\ BoundaryBefore(txt, i) /\ BoundaryAfter(txt, i)

Votes(segs, j, words) ==
    IF j >= 1 /\ j <= Len(segs) /\ segs[j].kind = "narration"
       /\ ContainsWord(segs[j].original_text, words) THEN 1 ELSE 0

\* char_info after the loop, as a sequence of entries in insertion order.
RECURSIVE _char_info(_, _, _)
_char_info(segs, i, info) ==
    IF i > Len(segs) THEN info
    ELSE LET seg == segs[i] IN
         IF seg.kind /= "dialogue" \/ seg.speaker \in {Unknown, Narrator} THEN
            _char_info(segs, i + 1, info)
         ELSE
            LET m == Votes(segs, i - 1, MaleWords) + Votes(segs, i + 1, MaleWords)
                f == Votes(segs, i - 1, FemaleWords) + Votes(segs, i + 1, FemaleWords)
                at == {k \in 1..Len(info) : info[k].name = seg.speaker}
            IN IF at = {} THEN
                  _char_info(segs, i + 1,
                      Append(info, [name |-> seg.speaker, count |-> 1, male |-> m, female |-> f]))
               ELSE
                  LET k == CHOOSE k \in at : TRUE IN
                  _char_info(segs, i + 1,
                      [info EXCEPT ![k] = [name |-> seg.speaker, count |-> info[k].count + 1,
                                           male |-> info[k].male + m,
                                           female |-> info[k].female + f]])

\* A description is kept as its parts: the gender word ("" when there is no
\* majority) and the number N of "N dialogue segment(s)"; the narrator's fixed
\* description has N = 0.
build_character_registry(segs) ==
    LET info == _char_info(segs, 1, <<>>)
    IN <<[name |-> Narrator, gender |-> "", count |-> 0]>> \o
       [k \in 1..Len(info) |->
           [name |-> info[k].name,
            gender |-> IF info[k].male > info[k].female THEN "male"
                       ELSE IF info[k].female > info[k].male THEN "female" ELSE "",
            count |-> info[k].count]]

\* ------------------------------------------------------------------------
\* Node 5: pause_timing.py
\* ------------------------------------------------------------------------
PAUSE_FIRST == 0
PAUSE_SCENE_BREAK == 1000
PAUSE_PARAGRAPH_BREAK == 500
PAUSE_DIALOGUE_AFTER_NARRATION == 350
PAUSE_NARRATION_AFTER_DIALOGUE == 300
PAUSE_DIALOGUE_TURN == 250

\* Variant: every skipped paragraph is a scene break, also between two
\* narration segments.
_pause_for_gap_only(segs, i) ==
    IF i = 1 THEN PAUSE_FIRST
    ELSE LET seg == segs[i]
             prev == segs[i - 1]
             para_gap == seg.paragraph_index - prev.paragraph_index
         IN IF para_gap > 1 THEN PAUSE_SCENE_BREAK
            ELSE IF para_gap >= 1 THEN PAUSE_PARAGRAPH_BREAK
            ELSE IF seg.kind = "dialogue" /\ prev.kind = "narration"
            THEN PAUSE_DIALOGUE_AFTER_NARRATION
            ELSE IF seg.kind = "narration" /\ prev.kind = "dialogue"
            THEN PAUSE_NARRATION_AFTER_DIALOGUE
            ELSE IF seg.kind = "dialogue" /\ prev.kind = "dialogue"
            THEN PAUSE_DIALOGUE_TURN
            ELSE PAUSE_PARAGRAPH_BREAK

_pause_for(segs, i) ==
    IF i = 1 THEN PAUSE_FIRST
    ELSE LET seg == segs[i]
             prev == segs[i - 1]
             para_gap == seg.paragraph_index - prev.paragraph_index
         IN IF para_gap > 1 /\ ~(prev.kind = "narration" /\ seg.kind = "narration")
            THEN PAUSE_SCENE_BREAK
            ELSE IF para_gap >= 1 THEN PAUSE_PARAGRAPH_BREAK
            ELSE IF seg.kind = "dialogue" /\ prev.kind = "narration"
            THEN PAUSE_DIALOGUE_AFTER_NARRATION
            ELSE IF seg.kind = "narration" /\ prev.kind = "dialogue"
            THEN PAUSE_NARRATION_AFTER_DIALOGUE
            ELSE IF seg.kind = "dialogue" /\ prev.kind = "dialogue"
            THEN PAUSE_DIALOGUE_TURN
            ELSE PAUSE_PARAGRAPH_BREAK

assign_pauses(segs) ==
    [i \in 1..Len(segs) |-> [segs[i] EXCEPT !.pause_before_ms = _pause_for(segs, i)]]

\* ------------------------------------------------------------------------
\* Node 6: validation.py
\* ------------------------------------------------------------------------
RECURSIVE RemoveAll(_, _)
RemoveAll(s, chars) ==
    IF s = <<>> THEN <<>>
    ELSE IF Head(s) \in chars THEN RemoveAll(Tail(s), chars)
    ELSE <<Head(s)>> \o RemoveAll(Tail(s), chars)

\* re.sub(r"\s+", " ", text) after text.replace("\n", " ")
RECURSIVE CollapseSpaces(_)
CollapseSpaces(s) ==
    IF s = <<>> THEN <<>>
    ELSE IF IsSpace(Head(s)) THEN <<SP>> \o CollapseSpaces(LStrip(s))
    ELSE <<Head(s)>> \o CollapseSpaces(Tail(s))

_normalise(text) ==
    Strip(CollapseSpaces(RemoveAll(text, {LDQUO, RDQUO, STRAIGHT_DOUBLE})))

\* str.split(): the maximal runs of non-whitespace.
RECURSIVE SplitWords(_, _)
SplitWords(s, cur) ==
    IF s = <<>> THEN (IF cur = <<>> THEN <<>> ELSE <<cur>>)
    ELSE IF IsSpace(Head(s))
         THEN (IF cur = <<>> THEN <<>> ELSE <<cur>>) \o SplitWords(Tail(s), <<>>)
         ELSE SplitWords(Tail(s), Append(cur, Head(s)))

Range(f) == {f[i] : i \in DOMAIN f}

\* Variant: the comparison alone, without the test for an empty list.
validate_completeness_compare_only(segs, original_text) ==
    LET original_norm == _normalise(original_text)
        reconstructed == Join([i \in 1..Len(segs) |-> segs[i].original_text], <<SP>>)
    IN IF original_norm = _normalise(reconstructed)
       THEN [passed |-> TRUE, issues |-> <<>>]
       ELSE [passed |-> FALSE, issues |-> <<"word_count_mismatch">>]

\* validate_completeness: the pair (passed, issues); an issue is kept as
\* the name of its kind.  The segments are already in id order.
validate_completeness(segs, original_text) ==
    IF segs = <<>> THEN [passed |-> FALSE, issues |-> <<"no_segments">>]
    ELSE
        LET original_norm == _normalise(original_text)
            reconstructed == Join([i \in 1..Len(segs) |-> segs[i].original_text], <<SP>>)
            reconstructed_norm == _normalise(reconstructed)
            orig_words == SplitWords(original_norm, <<>>)
            recon_words == SplitWords(reconstructed_norm, <<>>)
            missing == Range(orig_words) \ Range(recon_words)
            extra == Range(recon_words) \ Range(orig_words)
            shorter == IF Len(orig_words) < Len(recon_words)
                       THEN Len(orig_words) ELSE Len(recon_words)
            issues == (IF missing /= {} THEN <<"missing_words">> ELSE <<>>)
                   \o (IF extra /= {} THEN <<"extra_words">> ELSE <<>>)
                   \o (IF \E j \in 1..shorter : orig_words[j] /= recon_words[j]
                       THEN <<"word_mismatch">> ELSE <<>>)
                   \o (IF Len(orig_words) /= Len(recon_words)
                       THEN <<"word_count_mismatch">> ELSE <<>>)
        IN IF original_norm = reconstructed_norm THEN [passed |-> TRUE, issues |-> <<>>]
           ELSE [passed |-> issues = <<>>, issues |-> issues]

\* ------------------------------------------------------------------------
\* Node 7: ai_attribution.py
\* ------------------------------------------------------------------------
\* _BATCH_SIZE of ai_attribution.py is 20 and that of emotion_classifier.py
\* is 30.  The batches of the model are kept short so that a text of a few
\* segments is processed in several batches, as a chapter is in the source.
AttrBatchSize == 2
EmotionBatchSize == 2

IsUnknownDialogue(seg) == seg.kind = "dialogue" /\ seg.speaker = Unknown

\* unknown_indices, as 1-based positions in increasing order
RECURSIVE _unknown_indices(_, _)
_unknown_indices(segs, i) ==
    IF i > Len(segs) THEN <<>>
    ELSE (IF IsUnknownDialogue(segs[i]) THEN <<i>> ELSE <<>>) \o _unknown_indices(segs, i + 1)

\* unknown_indices[batch_start:batch_start + _BATCH_SIZE]
BatchOf(indices, start, size) ==
    Slice(indices, start, IF start + size < Len(indices) THEN start + size ELSE Len(indices))

\* attr_map = {a["segment_id"]: a["speaker"] for a in attributions}: the
\* last entry of an id wins.
RECURSIVE _attr_map(_)
_attr_map(attributions) ==
    IF attributions = <<>> THEN <<>>
    ELSE LET n == Len(attributions)
             a == attributions[n]
             rest == _attr_map(SubSeq(attributions, 1, n - 1))
         IN [id \in (DOMAIN rest) \cup {a.segment_id} |->
                IF id = a.segment_id THEN a.speaker ELSE rest[id]]

\* Variant of the loop below with attribution_source written outside the
\* `if speaker:` guard: every segment of the batch is marked "ai".
_apply_attributions_mark_batch(segs, batch_indices, attributions) ==
    LET attr_map == _attr_map(attributions)
    IN [i \in 1..Len(segs) |->
          IF i \in Range(batch_indices)
          THEN [segs[i] EXCEPT
                  !.speaker = IF segs[i].id \in DOMAIN attr_map /\ attr_map[segs[i].id] /= <<>>
                              THEN attr_map[segs[i].id] ELSE @,
                  !.attribution_source = "ai"]
          ELSE segs[i]]

\* Variant that walks all segments instead of those of the batch.
_apply_attributions_any_segment(segs, batch_indices, attributions) ==
    LET attr_map == _attr_map(attributions)
    IN [i \in 1..Len(segs) |->
          IF segs[i].id \in DOMAIN attr_map /\ attr_map[segs[i].id] /= <<>>
          THEN [segs[i] EXCEPT !.speaker = attr_map[segs[i].id], !.attribution_source = "ai"]
          ELSE segs[i]]

\* "Apply attributions from this batch": `if speaker:` skips a missing id
\* and an empty speaker.
_apply_attributions(segs, batch_indices, attributions) ==
    LET attr_map == _attr_map(attributions)
    IN [i \in 1..Len(segs) |->
          IF i \in Range(batch_indices) /\ segs[i].id \in DOMAIN attr_map
             /\ attr_map[segs[i].id] /= <<>>
          THEN [segs[i] EXCEPT !.speaker = attr_map[segs[i].id], !.attribution_source = "ai"]
          ELSE segs[i]]

RECURSIVE _fallback_loop(_, _, _)
_fallback_loop(segs, i, last_speaker) ==
    IF i > Len(segs) THEN segs
    ELSE LET seg == segs[i] IN
         IF seg.kind = "dialogue" /\ seg.speaker \notin {Unknown, Narrator}
         THEN _fallback_loop(segs, i + 1, seg.speaker)
         ELSE IF seg.kind = "dialogue" /\ seg.speaker = Unknown /\ last_speaker /= <<>>
         THEN _fallback_loop([segs EXCEPT ![i] = [seg EXCEPT !.speaker = last_speaker,
                                                             !.attribution_source = "default"]],
                             i + 1, last_speaker)
         ELSE _fallback_loop(segs, i + 1, last_speaker)

\* Variant of the fallback whose first test is `seg.speaker != "unknown"`:
\* a dialogue segment the LLM gave to the narrator counts as a known speaker.
RECURSIVE _fallback_loop_narrator(_, _, _)
_fallback_loop_narrator(segs, i, last_speaker) ==
    IF i > Len(segs) THEN segs
    ELSE LET seg == segs[i] IN
         IF seg.kind = "dialogue" /\ seg.speaker /= Unknown
         THEN _fallback_loop_narrator(segs, i + 1, seg.speaker)
         ELSE IF seg.kind = "dialogue" /\ seg.speaker = Unknown /\ last_speaker /= <<>>
         THEN _fallback_loop_narrator(
                  [segs EXCEPT ![i] = [seg EXCEPT !.speaker = last_speaker,
                                                  !.attribution_source = "default"]],
                  i + 1, last_speaker)
         ELSE _fallback_loop_narrator(segs, i + 1, last_speaker)

_fallback_last_speaker_narrator(segs) == _fallback_loop_narrator(segs, 1, <<>>)

\* Variant of the fallback whose second test is `seg.kind == "dialogue" and
\* last_speaker`: a dialogue segment the LLM gave to the narrator is written
\* again.
RECURSIVE _fallback_loop_overwrite(_, _, _)
_fallback_loop_overwrite(segs, i, last_speaker) ==
    IF i > Len(segs) THEN segs
    ELSE LET seg == segs[i] IN
         IF seg.kind = "dialogue" /\ seg.speaker \notin {Unknown, Narrator}
         THEN _fallback_loop_overwrite(segs, i + 1, seg.speaker)
         ELSE IF seg.kind = "dialogue" /\ last_speaker /= <<>>
         THEN _fallback_loop_overwrite(
                  [segs EXCEPT ![i] = [seg EXCEPT !.speaker = last_speaker,
                                                  !.attribution_source = "default"]],
                  i + 1, last_speaker)
         ELSE _fallback_loop_overwrite(segs, i + 1, last_speaker)

_fallback_last_speaker_overwrite(segs) == _fallback_loop_overwrite(segs, 1, <<>>)

\* last_speaker starts as None, written <<>>
_fallback_last_speaker(segs) == _fallback_loop(segs, 1, <<>>)

\* ------------------------------------------------------------------------
\* Node 8: emotion_classifier.py
\* ------------------------------------------------------------------------
\* Variant without the upper limit: max(0.0, intensity)
ClampBelow(intensity) == IF intensity < 0 THEN 0 ELSE intensity

\* max(0.0, min(1.0, intensity)) in hundredths
Clamp(intensity) == IF intensity < 0 THEN 0 ELSE IF intensity > 100 THEN 100 ELSE intensity

\* The parsing loop of _call_ollama over the entries of "emotions": the dict
\* id -> (emotion, intensity), the last entry of an id wins.  An entry whose
\* emotion is not allowed is skipped.
RECURSIVE _emotion_map(_)
_emotion_map(emotions) ==
    IF emotions = <<>> THEN <<>>
    ELSE LET n == Len(emotions)
             entry == emotions[n]
             rest == _emotion_map(SubSeq(emotions, 1, n - 1))
         IN IF entry.emotion \in ALLOWED_EMOTIONS
            THEN [id \in (DOMAIN rest) \cup {entry.id} |->
                    IF id = entry.id
                    THEN [emotion |-> entry.emotion, intensity |-> entry.intensity]
                    ELSE rest[id]]
            ELSE rest

\* float(intensity) is reached for an entry with an allowed emotion and
\* raises when the intensity is not a number; the exception leaves
\* _call_ollama and the whole batch is dropped.
_parse_fails(emotions) ==
    \E k \in 1..Len(emotions) :
        emotions[k].emotion \in ALLOWED_EMOTIONS /\ ~emotions[k].is_number

\* Variant that hands back the batch instead of the whole list.
_apply_emotions_batch_only(segs, batch_start, emotion_map) ==
    LET last == IF batch_start + EmotionBatchSize < Len(segs)
                THEN batch_start + EmotionBatchSize ELSE Len(segs)
    IN [k \in 1..(last - batch_start) |->
          LET seg == segs[batch_start + k] IN
          IF seg.id \in DOMAIN emotion_map
          THEN [seg EXCEPT !.emotion = emotion_map[seg.id].emotion,
                           !.intensity = Clamp(emotion_map[seg.id].intensity)]
          ELSE seg]

\* Variant that loops over `segments` instead of `batch`: an id of another
\* batch in the reply is applied too.
_apply_emotions_any_segment(segs, batch_start, emotion_map) ==
    [i \in 1..Len(segs) |->
        IF segs[i].id \in DOMAIN emotion_map
        THEN [segs[i] EXCEPT !.emotion = emotion_map[segs[i].id].emotion,
                             !.intensity = Clamp(emotion_map[segs[i].id].intensity)]
        ELSE segs[i]]

\* The loop `for seg in batch` of classify_emotions.
_apply_emotions(segs, batch_start, emotion_map) ==
    [i \in 1..Len(segs) |->
        IF i > batch_start /\ i <= batch_start + EmotionBatchSize
           /\ segs[i].id \in DOMAIN emotion_map
           /\ emotion_map[segs[i].id].emotion \in ALLOWED_EMOTIONS
        THEN [segs[i] EXCEPT !.emotion = emotion_map[segs[i].id].emotion,
                             !.intensity = Clamp(emotion_map[segs[i].id].intensity)]
        ELSE segs[i]]

\* ------------------------------------------------------------------------
\* pipeline.py
\* ------------------------------------------------------------------------
_count_unknown(segs) == Cardinality({i \in 1..Len(segs) : IsUnknownDialogue(segs[i])})

NodeMetrics(name, type, processed, affected) ==
    [node_name |-> name, node_type |-> type,
     segments_processed |-> processed, segments_affected |-> affected]

OutputSegment(seg) ==
    [id |-> seg.id,
     speaker |-> IF seg.kind = "dialogue" THEN seg.speaker ELSE Narrator,
     original_text |-> seg.original_text,
     emotion |-> seg.emotion,
     intensity |-> seg.intensity,
     pause_before_ms |-> seg.pause_before_ms]

\* sum(m.duration_ms for m in metrics if m.node_type in types)
RECURSIVE _sum_duration_ms(_, _)
_sum_duration_ms(m, types) ==
    IF m = <<>> THEN 0
    ELSE (IF Head(m).node_type \in types THEN Head(m).duration_ms ELSE 0)
         + _sum_duration_ms(Tail(m), types)

\* Variant whose total leaves out the stages that call the LLM.
_build_report_local_total(m) ==
    [total_duration_ms |-> _sum_duration_ms(m, {"programmatic"}),
     programmatic_duration_ms |-> _sum_duration_ms(m, {"programmatic"}),
     ai_duration_ms |-> _sum_duration_ms(m, {"ai"}),
     nodes |-> [k \in 1..Len(m) |-> [node |-> m[k].node_name, type |-> m[k].node_type,
                                     duration_ms |-> m[k].duration_ms,
                                     segments_processed |-> m[k].segments_processed,
                                     segments_affected |-> m[k].segments_affected]]]

_build_report(m) ==
    [total_duration_ms |-> _sum_duration_ms(m, {"programmatic", "ai"}),
     programmatic_duration_ms |-> _sum_duration_ms(m, {"programmatic"}),
     ai_duration_ms |-> _sum_duration_ms(m, {"ai"}),
     nodes |-> [k \in 1..Len(m) |-> [node |-> m[k].node_name, type |-> m[k].node_type,
                                     duration_ms |-> m[k].duration_ms,
                                     segments_processed |-> m[k].segments_processed,
                                     segments_affected |-> m[k].segments_affected]]]

\* ------------------------------------------------------------------------
\* Inputs
\* ------------------------------------------------------------------------
\* A text is a concatenation of pieces of prose: at most MaxChunks of them
\* for a whole run of the pipeline, at most MaxLocalChunks where only the
\* stages without LLM calls run.
MaxChunks == 2
MaxLocalChunks == 3

Chunks == <<
    <<SP, STRAIGHT_DOUBLE, "word", STRAIGHT_DOUBLE>>,
    <<SP, "Anna", SP, "said", DOT, SP, STRAIGHT_DOUBLE, "word", STRAIGHT_DOUBLE>>,
    <<SP, "Ben", SP, "said", DOT, SP, STRAIGHT_DOUBLE, "word", STRAIGHT_DOUBLE>>,
    <<SP, "said", SP, "Anna", DOT>>,
    <<SP, "he", SP, "said", DOT>>,
    <<NL>>,
    <<"word", DOT>>,
    <<SP, LAQUO, "word", RAQUO>>,
    <<SP, STRAIGHT_DOUBLE, "word", STRAIGHT_DOUBLE, SP, STRAIGHT_DOUBLE, "word", STRAIGHT_DOUBLE>>,
    <<SP, "Anna", SP, "said", DOT, SP, STRAIGHT_DOUBLE, "word", STRAIGHT_DOUBLE,
      SP, "Ben", SP, "said", DOT, SP, STRAIGHT_DOUBLE, "word", STRAIGHT_DOUBLE>>,
    <<"word", DOT, NL, "word", DOT>>
>>

RECURSIVE ConcatChunks(_)
ConcatChunks(cs) == IF cs = <<>> THEN <<>> ELSE Chunks[Head(cs)] \o ConcatChunks(Tail(cs))

TextsUpTo(max) ==
    {ConcatChunks(cs) : cs \in UNION {[1..n -> 1..Len(Chunks)] : n \in 0..max}}

Texts == TextsUpTo(MaxChunks)
LocalTexts == TextsUpTo(MaxLocalChunks)

\* A reply names a segment at most once: the ids of its entries increase.
IncreasingIds(ids) == \A a, b \in DOMAIN ids : a < b => ids[a] < ids[b]

\* What the LLM may answer.  The speakers it names: a name the text never
\* mentions, a name of the text, the two sentinels, and the empty string.
LLMSpeakers == {<<"Zed">>, <<"Anna">>, Unknown, Narrator, <<>>}
MaxAttributions == 1

AttributionReplies(n) ==
    {r \in UNION {[1..k -> [segment_id : 1..(n + 1), speaker : LLMSpeakers]] :
                     k \in 0..MaxAttributions} :
        IncreasingIds([k \in DOMAIN r |-> r[k].segment_id])}

\* "curious" is not an allowed emotion; intensities below, inside and above
\* the range; an intensity that is no number (it is then written 0).
LLMEmotions == {"happy", "curious"}
LLMIntensities == {0 - 20, 70, 130}
MaxEmotionEntries == 1

EmotionEntries(n) ==
    [id : 1..(n + 1), emotion : {"happy"}, intensity : LLMIntensities, is_number : {TRUE}]
    \cup [id : 1..(n + 1), emotion : LLMEmotions, intensity : {0}, is_number : {FALSE}]
    \cup [id : 1..(n + 1), emotion : {"curious"}, intensity : {70}, is_number : {TRUE}]

EmotionReplies(n) ==
    {r \in UNION {[1..k -> EmotionEntries(n)] : k \in 0..MaxEmotionEntries} :
        IncreasingIds([k \in DOMAIN r |-> r[k].id])}

\* What the clock measured, in milliseconds.  The dt of a stage is written
\* into its NodeMetrics and read again only by _build_report, so the model
\* draws the durations where they are read: one duration for the stages
\* without LLM calls and one for the stages with them, MaxDuration
\* milliseconds together, so that either kind of stage can be the slow one.
MaxDuration == 1
StageDurations ==
    {dt \in [programmatic : 0..MaxDuration, ai : 0..MaxDuration] :
        dt.programmatic + dt.ai = MaxDuration}

\* The list `metrics` with the dt each NodeMetrics was built with.
Timed(m, dt) ==
    [k \in 1..Len(m) |->
        [node_name |-> m[k].node_name, node_type |-> m[k].node_type,
         duration_ms |-> dt[m[k].node_type],
         segments_processed |-> m[k].segments_processed,
         segments_affected |-> m[k].segments_affected]]

\* ------------------------------------------------------------------------
\* State
\* ------------------------------------------------------------------------
VARIABLES
    text,            \* the argument of run_pipeline
    pc,              \* where run_pipeline stands
    segments,        \* the list `segments`
    characters,      \* the list `characters`
    validation,      \* (passed, issues) of Node 6
    metrics,         \* the list `metrics`
    unknown_indices, \* local of resolve_ambiguous_speakers
    batch_start,     \* loop variable of the batch loop of Node 7 or Node 8
    stage1_segments, \* the list as split_segments returned it
    before_fallback, \* the list as Node 7 handed it to _fallback_last_speaker
    call_outcome,    \* how the latest LLM call ended: "none", "reply", "error"
    result,          \* the PipelineResult
    suspended,       \* the locals of the other invocation of run_pipeline
    running,         \* which invocation the locals above belong to
    _SPEECH_VERBS,   \* the module-level cache of explicit_attribution.py
    ctx,             \* timing.py: the value of _current_metrics in each task
    stack,           \* timing.py: the scopes and timed_node calls each task is in
    collectors,      \* timing.py: every list a collect_metrics has created
    completed        \* the timed_node calls that have returned, in order

\* The invocation under way.
locals == <<text, pc, segments, characters, validation, metrics, unknown_indices,
            batch_start, stage1_segments, before_fallback, call_outcome, result>>

\* What no statement of run_pipeline touches.
outside == <<suspended, running, ctx, stack, collectors, completed>>

vars == <<locals, _SPEECH_VERBS, outside>>

Tasks == {1, 2}

\* No other invocation.
NoInvocation == [pc |-> "absent"]

\* No collect_metrics scope is open and no timed_node call is under way;
\* 0 stands for None.
TimingIdle ==
    /\ ctx = [t \in Tasks |-> 0]
    /\ stack = [t \in Tasks |-> <<>>]
    /\ collectors = <<>>
    /\ completed = <<>>

Alone == suspended = NoInvocation /\ running = 1 /\ TimingIdle

NoResult == [characters |-> <<>>, segments |-> <<>>, report |-> _build_report(<<>>)]

InitWith(texts) ==
    /\ text \in texts
    /\ pc = "node1"
    /\ segments = <<>>
    /\ characters = <<>>
    /\ validation = [passed |-> FALSE, issues |-> <<>>]
    /\ metrics = <<>>
    /\ unknown_indices = <<>>
    /\ batch_start = 0
    /\ stage1_segments = <<>>
    /\ before_fallback = <<>>
    /\ call_outcome = "none"
    /\ result = NoResult
    /\ _SPEECH_VERBS = <<>>

Init == InitWith(Texts) /\ Alone

\* Node 1 - Segment Splitter
Node1 ==
    /\ pc = "node1"
    /\ segments' = split_segments(text)
    /\ stage1_segments' = segments'
    /\ metrics' = Append(metrics, NodeMetrics("segment_splitter", "programmatic",
                                              Len(segments'), Len(segments')))
    /\ pc' = "node2"
    /\ UNCHANGED <<_SPEECH_VERBS, outside>>
    /\ UNCHANGED <<text, call_outcome, characters, validation, unknown_indices, batch_start,
                   before_fallback, result>>

\* Node 2 - Explicit Attribution
Node2 ==
    /\ pc = "node2"
    /\ segments' = attribute_explicit(segments)
    /\ metrics' = Append(metrics, NodeMetrics("explicit_attribution", "programmatic",
                            Len(segments'), _count_unknown(segments) - _count_unknown(segments')))
    /\ pc' = "node3"
    /\ _SPEECH_VERBS' = <<_get_speech_verbs>>
    /\ UNCHANGED outside
    /\ UNCHANGED <<text, call_outcome, characters, validation, unknown_indices, batch_start,
                   stage1_segments, before_fallback, result>>

\* Node 3 - Turn-Taking
Node3 ==
    /\ pc = "node3"
    /\ segments' = apply_turn_taking(segments)
    /\ metrics' = Append(metrics, NodeMetrics("turn_taking", "programmatic",
                            Len(segments'), _count_unknown(segments) - _count_unknown(segments')))
    /\ pc' = "node4"
    /\ UNCHANGED <<_SPEECH_VERBS, outside>>
    /\ UNCHANGED <<text, call_outcome, characters, validation, unknown_indices, batch_start,
                   stage1_segments, before_fallback, result>>

\* Node 4 - Character Registry
Node4 ==
    /\ pc = "node4"
    /\ characters' = build_character_registry(segments)
    /\ metrics' = Append(metrics, NodeMetrics("character_registry", "programmatic",
                                              Len(segments), Len(characters')))
    /\ pc' = "node5"
    /\ UNCHANGED <<_SPEECH_VERBS, outside>>
    /\ UNCHANGED <<text, call_outcome, segments, validation, unknown_indices, batch_start,
                   stage1_segments, before_fallback, result>>

\* Node 5 - Pause/Timing
Node5 ==
    /\ pc = "node5"
    /\ segments' = assign_pauses(segments)
    /\ metrics' = Append(metrics, NodeMetrics("pause_timing", "programmatic",
                                              Len(segments'), Len(segments')))
    /\ pc' = "node6"
    /\ UNCHANGED <<_SPEECH_VERBS, outside>>
    /\ UNCHANGED <<text, call_outcome, characters, validation, unknown_indices, batch_start,
                   stage1_segments, before_fallback, result>>

\* Node 6 - Validation
Node6 ==
    /\ pc = "node6"
    /\ validation' = validate_completeness(segments, text)
    /\ metrics' = Append(metrics, NodeMetrics("validation", "programmatic", Len(segments),
                            IF validation'.passed THEN 0 ELSE Len(validation'.issues)))
    /\ pc' = "node7"
    /\ UNCHANGED <<_SPEECH_VERBS, outside>>
    /\ UNCHANGED <<text, call_outcome, segments, characters, unknown_indices, batch_start,
                   stage1_segments, before_fallback, result>>

\* resolve_ambiguous_speakers returns to run_pipeline with the list segs.
Node7Return(segs) ==
    /\ segments' = segs
    /\ metrics' = Append(metrics, NodeMetrics("ai_attribution", "ai", Len(unknown_indices'),
                            Len(unknown_indices') - _count_unknown(segs)))
    /\ pc' = "node8"

\* Variant without the early return: the first call is issued also when no
\* dialogue segment is unknown.
Node7StartAlwaysCalls ==
    /\ pc = "node7"
    /\ unknown_indices' = _unknown_indices(segments, 1)
    /\ batch_start' = 0
    /\ pc' = "node7_call"
    /\ UNCHANGED <<segments, metrics, before_fallback>>
    /\ UNCHANGED <<_SPEECH_VERBS, outside>>
    /\ UNCHANGED <<text, call_outcome, characters, validation, stage1_segments, result>>

\* Node 7 - AI Attribution, up to the first LLM call
Node7Start ==
    /\ pc = "node7"
    /\ unknown_indices' = _unknown_indices(segments, 1)
    /\ batch_start' = 0
    /\ IF unknown_indices' = <<>>
       THEN Node7Return(segments) /\ UNCHANGED before_fallback
       ELSE pc' = "node7_call" /\ UNCHANGED <<segments, metrics, before_fallback>>
    /\ UNCHANGED <<_SPEECH_VERBS, outside>>
    /\ UNCHANGED <<text, call_outcome, characters, validation, stage1_segments, result>>

\* The rest of a batch of Node 7 once `attributions` is known: apply it, then
\* either issue the call of the next batch or run the fallback and return.
Node7Batch(attributions) ==
    LET batch_indices == BatchOf(unknown_indices, batch_start, AttrBatchSize)
        applied == _apply_attributions(segments, batch_indices, attributions)
    IN IF batch_start + AttrBatchSize < Len(unknown_indices)
       THEN /\ segments' = applied
            /\ batch_start' = batch_start + AttrBatchSize
            /\ UNCHANGED <<pc, metrics, unknown_indices, before_fallback>>
       ELSE /\ before_fallback' = applied
            /\ UNCHANGED <<unknown_indices, batch_start>>
            /\ Node7Return(_fallback_last_speaker(applied))

\* The LLM answers with a JSON object whose "attributions" is a list of
\* {segment_id, speaker} objects (an object without the key gives []).
Node7Reply ==
    /\ pc = "node7_call"
    /\ \E attributions \in AttributionReplies(Len(segments)) : Node7Batch(attributions)
    /\ call_outcome' = "reply"
    /\ UNCHANGED <<_SPEECH_VERBS, outside>>
    /\ UNCHANGED <<text, characters, validation, stage1_segments, result>>

\* The call raises inside _request_attributions (transport error, error
\* status, invalid JSON, a JSON value without .get): `except Exception`
\* replaces the attributions by [].
Node7Error ==
    /\ pc = "node7_call"
    /\ Node7Batch(<<>>)
    /\ call_outcome' = "error"
    /\ UNCHANGED <<_SPEECH_VERBS, outside>>
    /\ UNCHANGED <<text, characters, validation, stage1_segments, result>>

\* The LLM answers with a JSON object whose "attributions" is not a list of
\* objects that hold both keys (null, a string, an entry without segment_id or
\* without speaker).  _request_attributions returns it; building attr_map
\* raises outside the try block, and the exception leaves run_pipeline.
Node7Malformed ==
    /\ pc = "node7_call"
    /\ pc' = "raised"
    /\ call_outcome' = "reply"
    /\ UNCHANGED <<_SPEECH_VERBS, outside>>
    /\ UNCHANGED <<text, segments, characters, validation, metrics, unknown_indices,
                   batch_start, stage1_segments, before_fallback, result>>

\* The task is cancelled while it awaits the LLM: CancelledError is no
\* Exception, so no `except Exception` catches it and it leaves run_pipeline.
CancelCall ==
    /\ pc \in {"node7_call", "node8_call"}
    /\ pc' = "cancelled"
    /\ UNCHANGED <<_SPEECH_VERBS, outside>>
    /\ UNCHANGED <<text, call_outcome, segments, characters, validation, metrics, unknown_indices,
                   batch_start, stage1_segments, before_fallback, result>>

\* classify_emotions returns to run_pipeline with the list segs.
Node8Return(segs) ==
    /\ segments' = segs
    /\ metrics' = Append(metrics, NodeMetrics("emotion_classifier", "ai", Len(segs),
                            Cardinality({i \in 1..Len(segs) : segs[i].emotion /= "neutral"})))
    /\ pc' = "output"

\* Node 8 - Emotion Classification, up to the first LLM call
Node8Start ==
    /\ pc = "node8"
    /\ batch_start' = 0
    /\ IF segments = <<>>
       THEN Node8Return(segments)
       ELSE pc' = "node8_call" /\ UNCHANGED <<segments, metrics>>
    /\ UNCHANGED <<_SPEECH_VERBS, outside>>
    /\ UNCHANGED <<text, call_outcome, characters, validation, unknown_indices, stage1_segments,
                   before_fallback, result>>

\* Variant that starts the stage over when a batch brought no emotion.
Node8BatchRetry(emotion_map) ==
    LET applied == _apply_emotions(segments, batch_start, emotion_map)
    IN IF emotion_map = <<>>
       THEN pc' = "node8" /\ UNCHANGED <<segments, batch_start, metrics>>
       ELSE IF batch_start + EmotionBatchSize < Len(segments)
       THEN /\ segments' = applied
            /\ batch_start' = batch_start + EmotionBatchSize
            /\ UNCHANGED <<pc, metrics>>
       ELSE /\ UNCHANGED batch_start
            /\ Node8Return(applied)

\* Variant that leaves the batch loop when a batch brought no emotion.
Node8BatchStopOnFailure(emotion_map) ==
    LET applied == _apply_emotions(segments, batch_start, emotion_map)
    IN IF batch_start + EmotionBatchSize < Len(segments) /\ emotion_map /= <<>>
       THEN /\ segments' = applied
            /\ batch_start' = batch_start + EmotionBatchSize
            /\ UNCHANGED <<pc, metrics>>
       ELSE /\ UNCHANGED batch_start
            /\ Node8Return(applied)

\* The rest of a batch of Node 8 once emotion_map is known.
Node8Batch(emotion_map) ==
    LET applied == _apply_emotions(segments, batch_start, emotion_map)
    IN IF batch_start + EmotionBatchSize < Len(segments)
       THEN /\ segments' = applied
            /\ batch_start' = batch_start + EmotionBatchSize
            /\ UNCHANGED <<pc, metrics>>
       ELSE /\ UNCHANGED batch_start
            /\ Node8Return(applied)

\* The LLM answers with a JSON object whose "emotions" is a list of objects.
\* An entry whose intensity is no number makes float() raise, which drops the
\* batch like any other exception.
Node8Reply ==
    /\ pc = "node8_call"
    /\ \E emotions \in EmotionReplies(Len(segments)) :
          IF _parse_fails(emotions)
          THEN Node8Batch(<<>>) /\ call_outcome' = "error"
          ELSE Node8Batch(_emotion_map(emotions)) /\ call_outcome' = "reply"
    /\ UNCHANGED <<_SPEECH_VERBS, outside>>
    /\ UNCHANGED <<text, characters, validation, unknown_indices, stage1_segments,
                   before_fallback, result>>

\* The call raises inside _call_ollama: emotion_map = {}.
Node8Error ==
    /\ pc = "node8_call"
    /\ Node8Batch(<<>>)
    /\ call_outcome' = "error"
    /\ UNCHANGED <<_SPEECH_VERBS, outside>>
    /\ UNCHANGED <<text, characters, validation, unknown_indices, stage1_segments,
                   before_fallback, result>>

\* "Build output" and return
BuildOutput ==
    /\ pc = "output"
    /\ \E dt \in StageDurations :
          result' = [characters |-> characters,
                     segments |-> [i \in 1..Len(segments) |-> OutputSegment(segments[i])],
                     report |-> _build_report(Timed(metrics, dt))]
    /\ pc' = "done"
    /\ UNCHANGED <<_SPEECH_VERBS, outside>>
    /\ UNCHANGED <<text, call_outcome, segments, characters, validation, metrics, unknown_indices,
                   batch_start, stage1_segments, before_fallback>>

Next ==
    \/ Node1 \/ Node2 \/ Node3 \/ Node4 \/ Node5 \/ Node6
    \/ Node7Start \/ Node7Reply \/ Node7Error \/ Node7Malformed
    \/ Node8Start \/ Node8Reply \/ Node8Error
    \/ CancelCall
    \/ BuildOutput

Spec == Init /\ [][Next]_vars

\* ------------------------------------------------------------------------
\* Properties
\* ------------------------------------------------------------------------
Terminal == {"done", "raised", "cancelled"}
AfterStage1 == pc /= "node1"
AfterStage7 == pc \in {"node8", "node8_call", "output", "done"}

\* The segments joined in id order with single spaces.
Reconstructed(segs) == Join([i \in 1..Len(segs) |-> segs[i].original_text], <<SP>>)

\* C1: once split_segments has returned, its segments joined with single
\* spaces and normalised equal the normalised input, and validate_completeness
\* passes on that list whenever it holds at least one segment.
C1_VerbatimCoverage ==
    AfterStage1 =>
        /\ _normalise(Reconstructed(stage1_segments)) = _normalise(text)
        /\ stage1_segments /= <<>> => validate_completeness(stage1_segments, text).passed

\* The names of the registry and the speakers of the dialogue segments.
CharacterNames(chars) == {chars[k].name : k \in 1..Len(chars)}
DialogueSpeakers(segs) ==
    {segs[i].speaker : i \in {j \in 1..Len(segs) : segs[j].kind = "dialogue"}} \ {Unknown}

\* C2: when run_pipeline has returned, the names of the returned characters
\* are narrator plus exactly the speakers, other than unknown, of the returned
\* dialogue segments.
C2_RegistryMatchesSpeakers ==
    pc = "done" =>
        /\ Len(result.segments) = Len(segments)
        /\ CharacterNames(result.characters)
             = {Narrator} \cup DialogueSpeakers([i \in 1..Len(segments) |->
                    [kind |-> segments[i].kind, speaker |-> result.segments[i].speaker]])

\* The fields that Stage 1 fixes.
Frame(segs) ==
    [i \in 1..Len(segs) |->
        [id |-> segs[i].id, kind |-> segs[i].kind, original_text |-> segs[i].original_text,
         paragraph_index |-> segs[i].paragraph_index,
         char_offset_start |-> segs[i].char_offset_start,
         char_offset_end |-> segs[i].char_offset_end]]

\* C3: once split_segments has returned, the sequence of (id, kind,
\* original_text, paragraph_index, char_offset_start, char_offset_end) of the
\* list stays the one Stage 1 produced, through every later stage and every
\* LLM answer, and the returned segments carry the same ids and texts.
C3_StructureFrozen ==
    /\ AfterStage1 => Frame(segments) = Frame(stage1_segments)
    /\ pc = "done" =>
          [i \in 1..Len(result.segments) |->
              <<result.segments[i].id, result.segments[i].original_text>>]
          = [i \in 1..Len(stage1_segments) |->
              <<stage1_segments[i].id, stage1_segments[i].original_text>>]

\* A run that ended with segments of both kinds, where turn-taking, the LLM
\* of Stage 7 and the LLM of Stage 8 each changed a segment.
C3_Witness ==
    /\ pc = "done"
    /\ \E i, j \in 1..Len(segments) :
          /\ segments[i].kind = "narration" /\ segments[j].kind = "dialogue"
          /\ segments[j].attribution_source = "ai"
          /\ segments[i].emotion /= "neutral"
    /\ \E i \in 1..Len(segments) : segments[i].pause_before_ms > 0

\* C4: Stage 7 never lets an exception out, whatever the LLM answers for a
\* batch: no run of resolve_ambiguous_speakers ends by raising.
C4_Stage7NeverRaises == pc /= "raised"

Calls == {"node7_call", "node8_call"}

\* A step in which an LLM call ends by raising an Exception.
FailedCall == pc \in Calls /\ call_outcome' = "error" /\ pc' /= "cancelled"

\* C5 as stated: a cancelled or failed LLM call never aborts run_pipeline; in
\* particular no run ends by the cancellation leaving run_pipeline.
C5_CallFailureNotFatal == pc /= "cancelled"

\* C5 amended: an LLM call of Stage 7 or 8 that fails with an Exception
\* changes no segment (in Stage 7 the list reaches the final fallback as it
\* was before the call) and the stage goes on to its next batch or returns.
C5_FailedCallFailsOpen ==
    [][FailedCall =>
          /\ pc = "node7_call" => pc' \in {"node7_call", "node8"}
          /\ pc = "node8_call" => pc' \in {"node8_call", "output"}
          /\ IF pc' = "node8" THEN before_fallback' = segments ELSE segments' = segments
          /\ characters' = characters]_vars

\* A run that returned a result although a batch of Stage 7 had to be
\* processed and the last LLM call failed.
C5_Witness ==
    /\ pc = "done"
    /\ call_outcome = "error"
    /\ before_fallback /= <<>>
    /\ Len(result.segments) > 1

\* Where run_pipeline runs on its own, without waiting for the LLM.
LocalPcs == {"node1", "node2", "node3", "node4", "node5", "node6", "node7", "node8", "output"}

\* The coroutine moves on from a place where it is not suspended.
RunToNextAwait == pc \in LocalPcs /\ pc' \in (LocalPcs \cup Calls \cup Terminal) \ {pc}

\* The event loop runs the coroutine whenever it is not suspended on an LLM
\* call.  The client is built with timeout=None, so nothing forces a pending
\* call to end: no fairness is assumed on replies, errors or cancellation.
SpecFair == Init /\ [][Next]_vars /\ WF_pc(RunToNextAwait)

\* C6 as stated: run_pipeline eventually ends for every input, also when the
\* LLM service never answers.
C6_PipelineEnds == <>(pc \in Terminal)

\* C6 amended: run_pipeline eventually ends unless, from some point on, it
\* waits for the LLM for ever: the LLM calls are the only place where it can
\* stay, and it leaves them only when the call ends.
C6_EndsUnlessWaiting == <>[](pc \in Calls) \/ <>(pc \in Terminal)

\* A run that went through LLM calls of both stages and returned.
C6_Witness ==
    /\ pc = "done"
    /\ before_fallback /= <<>>
    /\ call_outcome = "reply"
    /\ Len(metrics) = 8

EmotionOf(seg) == <<seg.emotion, seg.intensity>>
DefaultEmotion == <<"neutral", DefaultIntensity>>

\* C7 as stated: whatever the LLM returns, every narration segment has
\* emotion neutral and intensity 0.5, in the list and in the output.
C7_NarrationStaysNeutral ==
    \A i \in 1..Len(segments) :
        segments[i].kind = "narration" =>
            /\ EmotionOf(segments[i]) = DefaultEmotion
            /\ pc = "done" => EmotionOf(result.segments[i]) = DefaultEmotion

\* C7 amended: Stage 8 treats narration and dialogue alike.  Segments are
\* created with (neutral, 0.5), and the emotion or intensity of a segment of
\* either kind changes only in Stage 8, while the batch that holds the
\* segment is processed and the LLM call of that batch gave a parsed reply.
C7_EmotionOnlyFromReply ==
    [][IF pc = "node1"
       THEN \A i \in 1..Len(segments') : EmotionOf(segments'[i]) = DefaultEmotion
       ELSE /\ Len(segments') = Len(segments)
            /\ \A i \in 1..Len(segments) :
                  EmotionOf(segments'[i]) /= EmotionOf(segments[i]) =>
                      /\ pc = "node8_call" /\ call_outcome' = "reply"
                      /\ i > batch_start /\ i <= batch_start + EmotionBatchSize
                      /\ segments'[i].emotion \in ALLOWED_EMOTIONS]_vars

\* A returned narration segment that Stage 8 gave an emotion and an intensity.
C7_Witness ==
    /\ pc = "done"
    /\ \E i \in 1..Len(segments) :
          /\ segments[i].kind = "narration"
          /\ result.segments[i].emotion = "happy"
          /\ result.segments[i].intensity = 70

\* C8: every segment, in the list and in the returned result, has an allowed
\* emotion and an intensity within [0, 1], whatever the LLM answered.
C8_EmotionInRange ==
    /\ \A i \in 1..Len(segments) :
          /\ segments[i].emotion \in ALLOWED_EMOTIONS
          /\ segments[i].intensity >= 0 /\ segments[i].intensity <= 100
    /\ \A i \in 1..Len(result.segments) :
          /\ result.segments[i].emotion \in ALLOWED_EMOTIONS
          /\ result.segments[i].intensity >= 0 /\ result.segments[i].intensity <= 100

\* A result with an intensity that was clamped from above and one that was
\* clamped from below.
C8_Witness ==
    /\ pc = "done"
    /\ \E i, j \in 1..Len(result.segments) :
          /\ result.segments[i].intensity = 100
          /\ result.segments[j].intensity = 0

\* The position of the latest dialogue segment before i whose speaker is
\* neither unknown nor narrator, 0 when there is none.
LastKnownBefore(segs, i) ==
    LET K == {j \in 1..(i - 1) : segs[j].kind = "dialogue"
                                 /\ segs[j].speaker \notin {Unknown, Narrator}}
    IN IF K = {} THEN 0 ELSE CHOOSE j \in K : \A k \in K : k <= j

\* C9: once Stage 7 has returned, a dialogue segment is unknown only if no
\* earlier dialogue segment has a speaker other than unknown and narrator;
\* a segment that was still unknown after the LLM batches and has such an
\* earlier speaker carries the most recent one with source default, and the
\* fallback changes no other speaker or source.
C9_FallbackLastSpeaker ==
    AfterStage7 =>
        /\ \A i \in 1..Len(segments) :
              IsUnknownDialogue(segments[i]) => LastKnownBefore(segments, i) = 0
        /\ \A i \in 1..Len(before_fallback) :
              LET j == LastKnownBefore(before_fallback, i) IN
              IF IsUnknownDialogue(before_fallback[i]) /\ j > 0
              THEN /\ segments[i].speaker = before_fallback[j].speaker
                   /\ segments[i].attribution_source = "default"
              ELSE /\ segments[i].speaker = before_fallback[i].speaker
                   /\ segments[i].attribution_source = before_fallback[i].attribution_source

\* After Stage 7: a dialogue segment the fallback filled, behind one that the
\* LLM named, behind one that stays unknown.
C9_Witness ==
    /\ AfterStage7
    /\ \E i, j, k \in 1..Len(segments) :
          /\ i < j /\ j < k
          /\ IsUnknownDialogue(segments[i])
          /\ segments[j].attribution_source = "ai"
          /\ segments[k].attribution_source = "default"

\* ------------------------------------------------------------------------
\* Stages 2 and 3 run a second time on their own output
\* ------------------------------------------------------------------------
RerunExplicit ==
    /\ pc = "node4"
    /\ segments' = attribute_explicit(segments)
    /\ pc' = "rerun_node3"
    /\ _SPEECH_VERBS' = <<_get_speech_verbs>>
    /\ UNCHANGED outside
    /\ UNCHANGED <<text, characters, validation, metrics, unknown_indices, batch_start,
                   stage1_segments, before_fallback, call_outcome, result>>

RerunTurnTaking ==
    /\ pc = "rerun_node3"
    /\ segments' = apply_turn_taking(segments)
    /\ pc' = "rerun_done"
    /\ UNCHANGED <<_SPEECH_VERBS, outside>>
    /\ UNCHANGED <<text, characters, validation, metrics, unknown_indices, batch_start,
                   stage1_segments, before_fallback, call_outcome, result>>

NextRerun == Node1 \/ Node2 \/ Node3 \/ RerunExplicit \/ RerunTurnTaking

InitRerun == InitWith(LocalTexts) /\ Alone

SpecRerun == InitRerun /\ [][NextRerun]_vars

Attribution(segs) == [i \in 1..Len(segs) |-> <<segs[i].speaker, segs[i].attribution_source>>]

\* C10: on a list that went through attribute_explicit and apply_turn_taking,
\* running attribute_explicit again and then apply_turn_taking again changes
\* no segment's speaker or attribution_source.
C10_RerunIsNoOp ==
    [][/\ pc \in {"node4", "rerun_node3"} =>
             Attribution(segments') = Attribution(segments)]_vars

\* Both stages have run twice on a list where the first run named one
\* speaker from the narration and another by turn-taking, next to a
\* dialogue segment that stays unknown.
C10_Witness ==
    /\ pc = "rerun_done"
    /\ \E i, j \in 1..Len(segments) :
          /\ segments[i].attribution_source = "explicit"
          /\ segments[j].attribution_source = "turn_taking"

\* ------------------------------------------------------------------------
\* Texts written line by line, and the stages without LLM calls
\* ------------------------------------------------------------------------
\* Two "LongNarration" lines are too long for the merge pass to join them.
\* "Unclosed" opens a quotation that its paragraph does not close, and the
\* quote mark of "Closing" follows a letter.
Line ==
    [Anna          |-> <<STRAIGHT_DOUBLE, "word", STRAIGHT_DOUBLE, SP, "said", SP, "Anna", DOT>>,
     Ben           |-> <<STRAIGHT_DOUBLE, "word", STRAIGHT_DOUBLE, SP, "said", SP, "Ben", DOT>>,
     Dialogue      |-> <<STRAIGHT_DOUBLE, "word", STRAIGHT_DOUBLE>>,
     Narration     |-> <<"word", DOT>>,
     LongNarration |-> <<"longword", DOT>>,
     Blank         |-> <<>>,
     Unclosed      |-> <<STRAIGHT_DOUBLE, "word", DOT>>,
     Closing       |-> <<"word", STRAIGHT_DOUBLE>>]

\* "\n".join(lines)
JoinLines(lines) == Join(lines, <<NL>>)

MaxLines == 4

LineTexts ==
    {JoinLines([i \in 1..Len(ls) |-> Line[ls[i]]]) :
        ls \in UNION {[1..n -> DOMAIN Line] : n \in 1..MaxLines}}

\* The literal end-to-end scenarios 3 and 4; those of scenario 5 are among
\* the LineTexts.
TurnTakingText ==
    JoinLines(<<Line.Anna, Line.Ben, Line.Dialogue, Line.Dialogue, Line.Dialogue>>)

SceneBreakTexts ==
    {JoinLines(<<Line.Anna, Line.Ben, Line.Narration, Line.Narration, Line.Dialogue>>),
     JoinLines(<<Line.Anna, Line.Ben, Line.Dialogue, Line.Narration, Line.Narration,
                 Line.Dialogue, Line.Dialogue>>)}

ScenarioTexts == {TurnTakingText} \cup SceneBreakTexts

InitLocal == InitWith(LocalTexts \cup LineTexts \cup ScenarioTexts) /\ Alone

NextLocal == Node1 \/ Node2 \/ Node3 \/ Node4 \/ Node5 \/ Node6

SpecLocal == InitLocal /\ [][NextLocal]_vars

AfterStage3 == pc \in {"node4", "node5", "node6", "node7"}
AfterStage5 == pc \in {"node6", "node7"}

Dialogues(segs) == SelectSeq(segs, LAMBDA seg : seg.kind = "dialogue")

\* C11: in the turn-taking scenario (five dialogue lines, the first followed
\* by "said Anna.", the second by "said Ben.", the others bare) Stages 1 to 3
\* give the dialogue segments the speakers Anna, Ben, Anna, Ben, Anna, the
\* first two explicitly and the last three by turn-taking.
C11_TurnTakingScenario ==
    (AfterStage3 /\ text = TurnTakingText) =>
        Attribution(Dialogues(segments)) =
            << <<(<<"Anna">>), "explicit">>, <<(<<"Ben">>), "explicit">>,
               <<(<<"Anna">>), "turn_taking">>, <<(<<"Ben">>), "turn_taking">>,
               <<(<<"Anna">>), "turn_taking">> >>

\* C12: in the scene-break scenario (a conversation of Anna and Ben, two
\* narration paragraphs, then bare dialogue) the dialogue after the narration
\* paragraphs is still unknown when Stage 7 starts.
C12_SceneBreakReset ==
    (pc = "node7" /\ text \in SceneBreakTexts) =>
        \A i \in 1..Len(segments) :
            (segments[i].kind = "dialogue" /\ segments[i].paragraph_index >= 4) =>
                segments[i].speaker = Unknown

\* C13: after Stages 1 and 5, two adjacent narration paragraphs give a
\* segment 2 with a pause of 500, and a narration paragraph, a blank line and
\* a dialogue paragraph give the dialogue segment a pause of 1000.
C13_PauseScenario ==
    AfterStage5 =>
        /\ text = JoinLines(<<Line.Narration, Line.Narration>>) =>
               Len(segments) >= 2 /\ segments[2].pause_before_ms = PAUSE_PARAGRAPH_BREAK
        /\ text = JoinLines(<<Line.Narration, Line.Blank, Line.Dialogue>>) =>
               \E i \in 1..Len(segments) :
                   /\ segments[i].kind = "dialogue"
                   /\ segments[i].paragraph_index = 2
                   /\ segments[i].pause_before_ms = PAUSE_SCENE_BREAK

\* C14: after Stage 5 the first segment has pause 0 and every later segment
\* has the value of the first matching row of the table, which reads only
\* the kinds and paragraph indices of the segment and its predecessor; a
\* second run of assign_pauses on the result changes nothing.
TablePause(prev_kind, kind, para_gap) ==
    CASE para_gap > 1 /\ ~(prev_kind = "narration" /\ kind = "narration") -> 1000
      [] para_gap > 1 -> 500
      [] para_gap = 1 -> 500
      [] kind = "dialogue" /\ prev_kind = "narration" -> 350
      [] kind = "narration" /\ prev_kind = "dialogue" -> 300
      [] kind = "dialogue" /\ prev_kind = "dialogue" -> 250
      [] OTHER -> 500

C14_PausesFollowTable ==
    AfterStage5 =>
        /\ \A i \in 1..Len(segments) :
              segments[i].pause_before_ms =
                  IF i = 1 THEN 0
                  ELSE TablePause(segments[i - 1].kind, segments[i].kind,
                                  segments[i].paragraph_index
                                      - segments[i - 1].paragraph_index)
        /\ assign_pauses(segments) = segments

C14_Witness ==
    /\ pc = "node7"
    /\ \E i \in 2..Len(segments) :
          /\ segments[i].kind = "narration" /\ segments[i - 1].kind = "narration"
          /\ segments[i].paragraph_index - segments[i - 1].paragraph_index > 1
          /\ segments[i].pause_before_ms = 500
    /\ \E j \in 2..Len(segments) : segments[j].pause_before_ms = 300

\* The comparison validate_completeness is about: the normalised input
\* against the normalised concatenation of the segments' texts.
NormalisedEqual == _normalise(text) = _normalise(Reconstructed(segments))

\* C15 as claimed: validation passes exactly when the normalised strings are
\* equal, with no issue when it passes and at least one when it fails, also
\* for an empty input with no segments.
C15_PassIffEqual ==
    pc = "node7" =>
        /\ validation.passed <=> NormalisedEqual
        /\ validation.passed => validation.issues = <<>>
        /\ ~validation.passed => validation.issues /= <<>>

\* C15 amended: validation passes exactly when there is at least one segment
\* and the normalised strings are equal; it has no issue when it passes and
\* at least one when it fails; with no segment it fails with the single
\* issue "No segments produced".
C15_PassIffSegmentsAndEqual ==
    pc = "node7" =>
        /\ validation.passed <=> (segments /= <<>> /\ NormalisedEqual)
        /\ validation.passed => validation.issues = <<>>
        /\ ~validation.passed => validation.issues /= <<>>
        /\ segments = <<>> => validation.issues = <<"no_segments">>

C15_Witness ==
    /\ pc = "node7"
    /\ segments /= <<>>
    /\ ~NormalisedEqual
    /\ ~validation.passed
    /\ Len(validation.issues) >= 2

\* ------------------------------------------------------------------------
\* Two invocations of run_pipeline on one event loop
\* ------------------------------------------------------------------------
\* A coroutine runs until it awaits: the event loop resumes another task
\* only while this one has not started, awaits the LLM, or has ended.
SuspensionPoints == {"node1"} \cup Calls \cup Terminal

\* The locals of run_pipeline as a record.
Locals ==
    [text |-> text, pc |-> pc, segments |-> segments, characters |-> characters,
     validation |-> validation, metrics |-> metrics,
     unknown_indices |-> unknown_indices, batch_start |-> batch_start,
     stage1_segments |-> stage1_segments, before_fallback |-> before_fallback,
     call_outcome |-> call_outcome, result |-> result]

InitialLocals(t) ==
    [text |-> t, pc |-> "node1", segments |-> <<>>, characters |-> <<>>,
     validation |-> [passed |-> FALSE, issues |-> <<>>], metrics |-> <<>>,
     unknown_indices |-> <<>>, batch_start |-> 0, stage1_segments |-> <<>>,
     before_fallback |-> <<>>, call_outcome |-> "none", result |-> NoResult]

\* Variant: one list `metrics` at module level, which every invocation
\* appends to.
SharedMetrics == metrics

\* `metrics` is a local of run_pipeline: the resumed invocation finds its own.
InvocationMetrics == suspended.metrics

\* The event loop suspends the invocation under way and resumes the other.
Switch ==
    /\ suspended /= NoInvocation
    /\ pc \in SuspensionPoints
    /\ suspended.pc \notin Terminal
    /\ running' = 3 - running
    /\ suspended' = Locals
    /\ text' = suspended.text
    /\ pc' = suspended.pc
    /\ segments' = suspended.segments
    /\ characters' = suspended.characters
    /\ validation' = suspended.validation
    /\ metrics' = InvocationMetrics
    /\ unknown_indices' = suspended.unknown_indices
    /\ batch_start' = suspended.batch_start
    /\ stage1_segments' = suspended.stage1_segments
    /\ before_fallback' = suspended.before_fallback
    /\ call_outcome' = suspended.call_outcome
    /\ result' = suspended.result
    /\ UNCHANGED <<_SPEECH_VERBS, ctx, stack, collectors, completed>>

MaxConcurrentChunks == 1

ConcurrentTexts == TextsUpTo(MaxConcurrentChunks)

\* Either invocation may be the first to run, so the two texts can be taken
\* with the shorter one in invocation 1: the other order gives the same
\* behaviours with the numbers of the invocations exchanged.
InitConcurrent ==
    /\ InitWith(ConcurrentTexts)
    /\ suspended \in {InitialLocals(t) : t \in ConcurrentTexts}
    /\ StrLen(text) <= StrLen(suspended.text)
    /\ running = 1
    /\ TimingIdle

NextConcurrent == Next \/ Switch

SpecConcurrent == InitConcurrent /\ [][NextConcurrent]_vars

\* What the stages without an LLM call make of a text.
LocalStages(t) == assign_pauses(apply_turn_taking(attribute_explicit(split_segments(t))))

NodeNames ==
    <<"segment_splitter", "explicit_attribution", "turn_taking", "character_registry",
      "pause_timing", "validation", "ai_attribution", "emotion_classifier">>

\* The part of a result that the text alone decides, and the node list.
ResultAsAlone(t, res) ==
    LET alone == LocalStages(t)
    IN /\ [k \in 1..Len(res.report.nodes) |-> res.report.nodes[k].node] = NodeNames
       /\ res.report.nodes[1].segments_processed = Len(alone)
       /\ res.characters = build_character_registry(alone)
       /\ [i \in 1..Len(res.segments) |->
              <<res.segments[i].id, res.segments[i].original_text,
                res.segments[i].pause_before_ms>>]
          = [i \in 1..Len(alone) |->
              <<alone[i].id, alone[i].original_text, alone[i].pause_before_ms>>]

\* C16: two invocations interleaved at their LLM suspension points are
\* independent: a step of one leaves the locals of the other as they are, a
\* resumed invocation finds its locals as it left them, and an invocation that
\* returns has the segments, characters and node list of its own text.
C16_InvocationsIndependent ==
    [][/\ running' = running => suspended' = suspended
       /\ running' /= running => (Locals' = suspended /\ suspended' = Locals)
       /\ (pc' = "done" /\ pc /= "done") => ResultAsAlone(text', result')]_vars

C16_Witness ==
    /\ pc = "done"
    /\ running = 1
    /\ suspended.pc = "node8_call"
    /\ suspended.text /= text
    /\ suspended.batch_start > 0
    /\ Len(result.segments) >= 2
    /\ _SPEECH_VERBS /= <<>>

\* ------------------------------------------------------------------------
\* timing.py: collect_metrics and timed_node
\* ------------------------------------------------------------------------
\* _current_metrics is a ContextVar and every asyncio task runs in a context
\* of its own: get and set in task t read and write the value of task t.
_current_metrics_get(c, t) == c[t]

\* Variant: one module-level variable instead of a ContextVar.
_current_metrics_set_global(c, t, v) == [u \in Tasks |-> v]

_current_metrics_set(c, t, v) == [c EXCEPT ![t] = v]

\* At most MaxScopes scopes are opened and MaxTimedCalls calls made.
MaxScopes == 2
MaxTimedCalls == 2

\* A decorated synchronous stage and a decorated coroutine.
SyncStage  == [name |-> "segment_splitter", type |-> "programmatic"]
AsyncStage == [name |-> "ai_attribution", type |-> "ai"]

Top(st) == st[Len(st)]
Pop(st) == SubSeq(st, 1, Len(st) - 1)

\* The collector of the innermost scope a task has open, 0 when it has none.
RECURSIVE InnermostScope(_)
InnermostScope(st) ==
    IF st = <<>> THEN 0
    ELSE IF Top(st).kind = "scope" THEN Top(st).collector
    ELSE InnermostScope(Pop(st))

CallsUnderWay ==
    Cardinality({<<t, k>> \in Tasks \X (1..(MaxScopes + MaxTimedCalls)) :
                    k <= Len(stack[t]) /\ stack[t][k].kind = "call"})

\* _record: append to the list the wrapper read when the call started.
_record(lists, metrics_list, stage) ==
    IF metrics_list = 0 THEN lists
    ELSE [lists EXCEPT ![metrics_list] = Append(@, NodeMetrics(stage.name, stage.type, 0, 0))]

Returned(t, stage, active) == [task |-> t, name |-> stage.name, active |-> active]

\* collect_metrics.__enter__ in task t
EnterScope(t) ==
    /\ Len(collectors) < MaxScopes
    /\ collectors' = Append(collectors, <<>>)
    /\ stack' = [stack EXCEPT ![t] = Append(@, [kind |-> "scope",
                                                 token |-> _current_metrics_get(ctx, t),
                                                 collector |-> Len(collectors) + 1])]
    /\ ctx' = _current_metrics_set(ctx, t, Len(collectors) + 1)
    /\ UNCHANGED <<completed, locals, _SPEECH_VERBS, suspended, running>>

\* collect_metrics.__exit__ in task t: reset(token) puts the old value back.
ExitScope(t) ==
    /\ stack[t] /= <<>>
    /\ Top(stack[t]).kind = "scope"
    /\ ctx' = _current_metrics_set(ctx, t, Top(stack[t]).token)
    /\ stack' = [stack EXCEPT ![t] = Pop(@)]
    /\ UNCHANGED <<collectors, completed, locals, _SPEECH_VERBS, suspended, running>>

\* The wrapper of a synchronous stage: it cannot be suspended.
CallSync(t) ==
    /\ Len(completed) + CallsUnderWay < MaxTimedCalls
    /\ collectors' = _record(collectors, _current_metrics_get(ctx, t), SyncStage)
    /\ completed' = Append(completed, Returned(t, SyncStage, InnermostScope(stack[t])))
    /\ UNCHANGED <<ctx, stack, locals, _SPEECH_VERBS, suspended, running>>

\* The wrapper of a coroutine, up to `await fn(...)`.
CallStart(t) ==
    /\ Len(completed) + CallsUnderWay < MaxTimedCalls
    /\ stack' = [stack EXCEPT ![t] = Append(@, [kind |-> "call",
                                                 metrics |-> _current_metrics_get(ctx, t),
                                                 active |-> InnermostScope(stack[t])])]
    /\ UNCHANGED <<ctx, collectors, completed, locals, _SPEECH_VERBS, suspended, running>>

\* The awaited coroutine returns: _record, then the wrapper returns.
CallComplete(t) ==
    /\ stack[t] /= <<>>
    /\ Top(stack[t]).kind = "call"
    /\ collectors' = _record(collectors, Top(stack[t]).metrics, AsyncStage)
    /\ completed' = Append(completed, Returned(t, AsyncStage, Top(stack[t]).active))
    /\ stack' = [stack EXCEPT ![t] = Pop(@)]
    /\ UNCHANGED <<ctx, locals, _SPEECH_VERBS, suspended, running>>

\* The awaited coroutine raises: the wrapper is left before _record.
CallRaise(t) ==
    /\ stack[t] /= <<>>
    /\ Top(stack[t]).kind = "call"
    /\ stack' = [stack EXCEPT ![t] = Pop(@)]
    /\ UNCHANGED <<ctx, collectors, completed, locals, _SPEECH_VERBS, suspended, running>>

InitTiming == InitWith({<<>>}) /\ Alone

NextTiming ==
    \E t \in Tasks :
        \/ EnterScope(t) \/ ExitScope(t)
        \/ CallSync(t) \/ CallStart(t) \/ CallComplete(t) \/ CallRaise(t)

SpecTiming == InitTiming /\ [][NextTiming]_vars

\* C17: every call that returned appended one NodeMetrics to the collector
\* that was innermost in its own task when it started, and to no other; a
\* call started outside every scope appended nothing; in every task the
\* active collector is the one of its innermost open scope, so leaving a
\* scope brings back the collector that was active before it.
C17_ScopedMetrics ==
    /\ \A c \in 1..Len(collectors) :
          [k \in 1..Len(collectors[c]) |-> collectors[c][k].node_name]
          = LET mine == SelectSeq(completed, LAMBDA e : e.active = c)
            IN [k \in 1..Len(mine) |-> mine[k].name]
    /\ \A t \in Tasks : _current_metrics_get(ctx, t) = InnermostScope(stack[t])

C17_Witness ==
    /\ Len(completed) = MaxTimedCalls
    /\ \E a, b \in 1..Len(completed) :
          /\ completed[a].active = 0
          /\ completed[b].active /= 0 /\ completed[b].name = AsyncStage.name
          /\ collectors[completed[b].active] /= <<>>
    /\ \E t \in Tasks :
          /\ stack[t] /= <<>>
          /\ Top(stack[t]).kind = "scope"
          /\ collectors[Top(stack[t]).collector] = <<>>

\* C18: the segments split_segments returns, and those of the result of
\* run_pipeline, have the ids 1, 2, ..., N in list order, also when
\* narration segments were merged.
C18_IdsSequential ==
    /\ AfterStage1 => \A i \in 1..Len(segments) : segments[i].id = i
    /\ pc = "done" => \A i \in 1..Len(result.segments) : result.segments[i].id = i

C18_Witness ==
    /\ pc = "done"
    /\ Len(result.segments) >= 2
    /\ \E i \in 1..(Len(segments) - 1) :
          /\ segments[i].kind = "narration"
          /\ \E k \in 1..Len(segments[i].original_text) : segments[i].original_text[k] = NL
          /\ result.segments[i + 1].id = i + 1

\* C19: at the end of every stage and in the output, every narration
\* segment has the speaker narrator, whatever the text and the LLM replies.
C19_NarrationIsNarrator ==
    /\ \A i \in 1..Len(segments) :
          segments[i].kind = "narration" => segments[i].speaker = Narrator
    /\ pc = "done" =>
          \A i \in 1..Len(result.segments) :
              segments[i].kind = "narration" => result.segments[i].speaker = Narrator

C19_Witness ==
    /\ pc = "done"
    /\ call_outcome = "reply"
    /\ \E i, j \in 1..Len(segments) :
          /\ segments[i].kind = "narration"
          /\ result.segments[i].speaker = Narrator
          /\ segments[j].kind = "dialogue"
          /\ segments[j].attribution_source = "ai"
          /\ segments[j].speaker = <<"Zed">>

\* C20: every segment split_segments returns has char_offset_start <
\* char_offset_end, and both offsets never decrease along the list, also
\* after the merge pass and across blank paragraphs.
C20_OffsetsOrdered ==
    AfterStage1 =>
        /\ \A i \in 1..Len(stage1_segments) :
              stage1_segments[i].char_offset_start < stage1_segments[i].char_offset_end
        /\ \A i \in 2..Len(stage1_segments) :
              /\ stage1_segments[i - 1].char_offset_start <= stage1_segments[i].char_offset_start
              /\ stage1_segments[i - 1].char_offset_end <= stage1_segments[i].char_offset_end

C20_Witness ==
    /\ pc = "node2"
    /\ \E i \in 2..Len(segments) :
          /\ segments[i - 1].kind = "narration"
          /\ \E k \in 1..Len(segments[i - 1].original_text) :
                segments[i - 1].original_text[k] = NL
          /\ segments[i].paragraph_index - segments[i - 1].paragraph_index > 2
          /\ segments[i - 1].char_offset_end < segments[i].char_offset_start

\* ------------------------------------------------------------------------
\* Spans of Stage 1
\* ------------------------------------------------------------------------
\* C21: every character position of the text lies in the half-open span
\* [char_offset_start, char_offset_end) of exactly one segment that
\* split_segments returned.
C21_EveryPositionInOneSpan ==
    AfterStage1 =>
        \A p \in 0..(StrLen(text) - 1) :
            Cardinality({i \in 1..Len(stage1_segments) :
                            /\ stage1_segments[i].char_offset_start <= p
                            /\ p < stage1_segments[i].char_offset_end}) = 1

\* ------------------------------------------------------------------------
\* Failed batches of Stage 8
\* ------------------------------------------------------------------------
\* C22: a batch of Stage 8 whose LLM call fails, or whose reply cannot be
\* parsed, leaves every segment as it was: the segments of the batch keep
\* their emotion and intensity and the batches applied before keep theirs.
\* The loop goes on with the next batch, or the stage returns after the last
\* one; a reply is applied to its own batch whatever the outcome of the
\* batch before was.  (A cancelled call ends the invocation and is no
\* failure of a batch.)
C22_FailedBatchFailsOpen ==
    [][/\ (pc = "node8_call" /\ pc' /= "cancelled" /\ call_outcome' = "error") =>
              /\ segments' = segments
              /\ IF batch_start + EmotionBatchSize < Len(segments)
                 THEN pc' = "node8_call" /\ batch_start' = batch_start + EmotionBatchSize
                 ELSE pc' = "output"
       /\ (pc = "node8_call" /\ pc' /= "cancelled" /\ call_outcome' = "reply") =>
              /\ pc' = (IF batch_start + EmotionBatchSize < Len(segments)
                        THEN "node8_call" ELSE "output")
              /\ \A i \in 1..Len(segments) :
                    (i <= batch_start \/ i > batch_start + EmotionBatchSize) =>
                        segments'[i] = segments[i]]_vars

\* The second batch has just failed and a third is to come: a segment of
\* the first batch is classified, those of the failed batch are at their
\* defaults.
C22_Witness ==
    /\ pc = "node8_call"
    /\ call_outcome = "error"
    /\ batch_start = 2 * EmotionBatchSize
    /\ \E i \in 1..EmotionBatchSize : EmotionOf(segments[i]) = <<"happy", 70>>
    /\ \A i \in (EmotionBatchSize + 1)..(2 * EmotionBatchSize) :
          EmotionOf(segments[i]) = DefaultEmotion

\* ------------------------------------------------------------------------
\* Texts without quotations
\* ------------------------------------------------------------------------
\* C23: for the empty text and for a text without any quote character,
\* run_pipeline never raises and never issues a call of Stage 7; every
\* segment is narration, the character list is the narrator alone, and the
\* result says the same.  The empty text gives no segment and no LLM call
\* at all.
C23_QuotelessText ==
    (\A k \in 1..Len(text) : text[k] \notin OPEN_QUOTES \cup CLOSE_QUOTES \cup {STRAIGHT_DOUBLE}) =>
        /\ pc \notin {"node7_call", "raised"}
        /\ \A i \in 1..Len(segments) : segments[i].kind = "narration"
        /\ text = <<>> => segments = <<>> /\ pc \notin Calls \cup {"cancelled"}
        /\ pc \notin {"node1", "node2", "node3", "node4"} =>
               /\ Len(characters) = 1
               /\ characters[1].name = Narrator
        /\ pc = "done" =>
               /\ result.characters = characters
               /\ Len(result.segments) = Len(segments)
               /\ \A i \in 1..Len(result.segments) : result.segments[i].speaker = Narrator

\* A returned result for a text of two narration paragraphs, after the one
\* LLM call of Stage 8 was answered.
C23_Witness ==
    /\ pc = "done"
    /\ \E k \in 1..Len(text) : text[k] = NL
    /\ \A k \in 1..Len(text) : text[k] \notin OPEN_QUOTES \cup CLOSE_QUOTES \cup {STRAIGHT_DOUBLE}
    /\ Len(result.segments) = 1
    /\ result.segments[1].emotion = "happy"
    /\ Len(result.characters) = 1
    /\ Len(result.report.nodes) = 8

\* ------------------------------------------------------------------------
\* The order of the stages and the report
\* ------------------------------------------------------------------------
\* How many stages have returned when run_pipeline stands at p.
StagesFinished(p) ==
    CASE p = "node1" -> {0}
      [] p = "node2" -> {1}
      [] p = "node3" -> {2}
      [] p = "node4" -> {3}
      [] p = "node5" -> {4}
      [] p = "node6" -> {5}
      [] p \in {"node7", "node7_call", "raised"} -> {6}
      [] p \in {"node8", "node8_call"} -> {7}
      [] p = "cancelled" -> {6, 7}
      [] OTHER -> {8}

\* C24: the stages run once each in the fixed order, one after the other:
\* wherever run_pipeline stands, `metrics` holds one entry for each stage
\* that has returned, in the order of the stages, also after validation
\* reported issues.  The report of a returned result lists the eight stages
\* in that order with their types, and its total duration is the sum of
\* the programmatic and the AI duration.
C24_StagesInOrder ==
    /\ Len(metrics) \in StagesFinished(pc)
    /\ [k \in 1..Len(metrics) |-> metrics[k].node_name] = SubSeq(NodeNames, 1, Len(metrics))
    /\ pc = "done" =>
          /\ [k \in 1..Len(result.report.nodes) |-> result.report.nodes[k].node] = NodeNames
          /\ [k \in 1..Len(result.report.nodes) |-> result.report.nodes[k].type]
               = [k \in 1..8 |-> IF k <= 6 THEN "programmatic" ELSE "ai"]
          /\ result.report.total_duration_ms
               = result.report.programmatic_duration_ms + result.report.ai_duration_ms

\* A returned result after validation reported issues and both LLM stages
\* made calls that took time.
C24_Witness ==
    /\ pc = "done"
    /\ ~validation.passed
    /\ unknown_indices /= <<>>
    /\ result.report.ai_duration_ms > 0
    /\ result.report.nodes[6].segments_affected > 0
    /\ Len(result.segments) > 1

\* ------------------------------------------------------------------------
\* Pronoun attributions of Stage 2
\* ------------------------------------------------------------------------
\* C25: when attribute_explicit has run, a dialogue segment whose adjacent
\* narration holds he or she next to a speech verb, and no character name,
\* is still unknown and has attribution_source pronoun_male for he and
\* pronoun_female for she; the pronoun is not its speaker.
C25_PronounOnlyStaysUnknown ==
    pc = "node3" =>
        \A i \in 1..Len(segments) :
            LET context == Join(ExplicitContext(stage1_segments, i), <<SP>>)
                pronoun == _try_pronoun_match(context)
            IN (/\ segments[i].kind = "dialogue"
                /\ pronoun /= <<>>
                /\ \A k \in 1..Len(context) : context[k] \notin {"Anna", "Ben"}) =>
                   /\ segments[i].speaker = Unknown
                   /\ segments[i].attribution_source =
                          (IF pronoun = <<"he">> THEN "pronoun_male" ELSE "pronoun_female")

\* ------------------------------------------------------------------------
\* The alternation pass of Stage 3
\* ------------------------------------------------------------------------
\* C26: in the alternation pass an unknown dialogue segment met while the
\* history of the block holds at least two speakers gets a speaker other
\* than the most recent one of the history, with attribution_source
\* turn_taking; met while the history holds fewer than two speakers it stays
\* as it was; and the history never holds the same speaker twice in a row.
C26_AlternationNeverRepeats ==
    [][pc = "node3" =>
          LET met == _resolve_pronouns(segments)
              history == _conv_speakers(met, 1, <<>>, 0)
          IN \A i \in 1..Len(met) :
                /\ \A k \in 2..Len(history[i]) : history[i][k - 1] /= history[i][k]
                /\ IsUnknownDialogue(met[i]) =>
                      IF Len(history[i]) >= 2
                      THEN /\ segments'[i].speaker /= Unknown
                           /\ segments'[i].speaker /= history[i][Len(history[i])]
                           /\ segments'[i].attribution_source = "turn_taking"
                      ELSE segments'[i] = met[i]]_vars

\* Stage 3 has returned a list in which one dialogue segment was given the
\* other speaker of its block and another one, met with a shorter history,
\* is still unknown.
C26_Witness ==
    /\ pc = "node4"
    /\ \E i, j \in 1..Len(segments) :
          /\ segments[i].attribution_source = "turn_taking"
          /\ IsUnknownDialogue(segments[j])
          /\ Len(_conv_speakers(segments, 1, <<>>, 0)[i]) >= 2

\* ------------------------------------------------------------------------
\* The merge pass of Stage 1
\* ------------------------------------------------------------------------
\* C27: in the list the merge pass returns, no two neighbours are narration
\* segments short enough to be merged.  Every returned segment stands for
\* a run of segments of the list the pass was given, the runs following
\* each other in order: its text is the texts of the run joined by newlines,
\* its paragraph_index and char_offset_start are those of the first of the
\* run and its char_offset_end that of the last.  A run of more than one
\* segment is all narration, so a dialogue segment comes back alone, with
\* the fields it had (the id is the position in the returned list, C18).
C27_MergePass ==
    AfterStage1 =>
        LET parts == _split_loop(_split_paragraphs(text), 0, 0, <<>>)
            out == stage1_segments
            run(j) == {k \in 1..Len(parts) :
                          /\ out[j].char_offset_start <= parts[k].char_offset_start
                          /\ parts[k].char_offset_start < out[j].char_offset_end}
            first(j) == CHOOSE k \in run(j) : \A m \in run(j) : k <= m
            last(j) == CHOOSE k \in run(j) : \A m \in run(j) : k >= m
        IN /\ \A j \in 2..Len(out) :
                 ~(/\ out[j - 1].kind = "narration" /\ out[j].kind = "narration"
                   /\ StrLen(out[j - 1].original_text) + 1 + StrLen(out[j].original_text) <= 800)
           /\ \A k \in 1..Len(parts) : Cardinality({j \in 1..Len(out) : k \in run(j)}) = 1
           /\ \A j \in 1..Len(out) :
                 /\ run(j) /= {}
                 /\ run(j) = first(j)..last(j)
                 /\ j > 1 => last(j - 1) < first(j)
                 /\ out[j].original_text =
                        Join([n \in 1..Cardinality(run(j)) |-> parts[first(j) + n - 1].original_text],
                             <<NL>>)
                 /\ out[j].paragraph_index = parts[first(j)].paragraph_index
                 /\ out[j].char_offset_start = parts[first(j)].char_offset_start
                 /\ out[j].char_offset_end = parts[last(j)].char_offset_end
                 /\ \A k \in run(j) : parts[k].kind = out[j].kind
                 /\ Cardinality(run(j)) > 1 => out[j].kind = "narration"
                 /\ out[j].kind = "dialogue" => out[j] = [parts[first(j)] EXCEPT !.id = j]

\* Stage 1 returned two neighbouring narration segments that are too long
\* to be merged, the second of them merged from two paragraphs, and a
\* dialogue segment after them.
C27_Witness ==
    /\ pc = "node2"
    /\ \E j \in 2..Len(segments) :
          /\ segments[j - 1].kind = "narration" /\ segments[j].kind = "narration"
          /\ \E k \in 1..Len(segments[j].original_text) : segments[j].original_text[k] = NL
          /\ \E d \in (j + 1)..Len(segments) : segments[d].kind = "dialogue" /\ segments[d].id = d

\* ------------------------------------------------------------------------
\* The quote state of Stage 1
\* ------------------------------------------------------------------------
\* C28: the quote state is per paragraph.  A paragraph whose only quote
\* character opens a quotation gives, whatever the paragraphs before it
\* hold, one dialogue segment with the text from after the quote to the end
\* of the paragraph and the span from the quote to the end of the
\* paragraph; a paragraph without an opening quote gives no dialogue
\* segment.  No dialogue segment's text holds a newline, and the span of
\* every dialogue segment starts at an opening quote character.
C28_QuoteStatePerParagraph ==
    AfterStage1 =>
        LET paragraphs == _split_paragraphs(text)
            quote_chars == OPEN_QUOTES \cup CLOSE_QUOTES \cup {STRAIGHT_DOUBLE}
            offset(p) == StrLen(Join(SubSeq(paragraphs, 1, p - 1), <<NL>>))
                         + (IF p > 1 THEN 1 ELSE 0)
            quotes(p) == {q \in 1..Len(paragraphs[p]) : paragraphs[p][q] \in quote_chars}
            opens(p, q) ==
                \/ paragraphs[p][q] \in OPEN_QUOTES
                \/ /\ paragraphs[p][q] = STRAIGHT_DOUBLE
                   /\ (q = 1 \/ paragraphs[p][q - 1] \notin _CLOSING_CONTEXT)
            dialogues(p) == {i \in 1..Len(stage1_segments) :
                                /\ stage1_segments[i].kind = "dialogue"
                                /\ stage1_segments[i].paragraph_index = p - 1}
        IN /\ \A i \in 1..Len(stage1_segments) :
                 stage1_segments[i].kind = "dialogue" =>
                    /\ \A k \in 1..Len(stage1_segments[i].original_text) :
                          stage1_segments[i].original_text[k] /= NL
                    /\ \E k \in 1..Len(text) :
                          /\ CharOff(text, k - 1) = stage1_segments[i].char_offset_start
                          /\ text[k] \in OPEN_QUOTES \cup {STRAIGHT_DOUBLE}
           /\ \A p \in 1..Len(paragraphs) :
                 /\ (\A q \in quotes(p) : ~opens(p, q)) => dialogues(p) = {}
                 /\ \A q \in quotes(p) :
                       (/\ quotes(p) = {q} /\ opens(p, q)
                        /\ Strip(SubSeq(paragraphs[p], q + 1, Len(paragraphs[p]))) /= <<>>) =>
                           /\ Cardinality(dialogues(p)) = 1
                           /\ \A i \in dialogues(p) :
                                 /\ stage1_segments[i].original_text =
                                        Strip(SubSeq(paragraphs[p], q + 1, Len(paragraphs[p])))
                                 /\ stage1_segments[i].char_offset_start =
                                        offset(p) + CharOff(paragraphs[p], q - 1)
                                 /\ stage1_segments[i].char_offset_end =
                                        offset(p) + StrLen(paragraphs[p])

\* A quotation left open by its paragraph, followed by a paragraph that
\* holds only a quote mark after a letter and became narration, and by
\* another quotation left open.
C28_Witness ==
    /\ pc = "node2"
    /\ text = JoinLines(<<Line.Unclosed, Line.Closing, Line.Unclosed>>)
    /\ Len(segments) = 3
    /\ segments[1].kind = "dialogue" /\ segments[1].original_text = <<"word", DOT>>
    /\ segments[2].kind = "narration" /\ segments[2].original_text = Line.Closing
    /\ segments[3].kind = "dialogue" /\ segments[3].paragraph_index = 2

\* ------------------------------------------------------------------------
\* C29: speaker attribution is monotonic across Stages 2, 3 and 7.  A pass
\* over the segments (the explicit patterns, the pronoun resolution, the
\* alternation, the attributions of one batch, the fallback) leaves the
\* speaker and the attribution_source of every segment that is no unknown
\* dialogue segment when the pass starts, whatever the LLM answers.
AttributionKept(before, after) ==
    /\ Len(after) = Len(before)
    /\ \A i \in 1..Len(before) :
          ~IsUnknownDialogue(before[i]) =>
              /\ after[i].speaker = before[i].speaker
              /\ after[i].attribution_source = before[i].attribution_source

C29_AttributionMonotonic ==
    [][(pc \in {"node2", "node3", "node4", "node5", "node6", "node7", "node7_call"}) =>
          (/\ AttributionKept(segments, segments')
           /\ (pc = "node3") =>
                 (/\ AttributionKept(segments, _resolve_pronouns(segments))
                  /\ AttributionKept(_resolve_pronouns(segments), segments'))
           /\ (pc = "node7_call" /\ pc' = "node8") =>
                 (/\ AttributionKept(segments, before_fallback')
                  /\ AttributionKept(before_fallback', segments')))]_vars

\* Stage 7 has returned after an LLM reply: a segment attributed by Stage 2
\* kept its speaker, one segment was written from the reply (the narrator,
\* which the fallback left), and one by the fallback.
C29_Witness ==
    /\ pc = "node8"
    /\ call_outcome = "reply"
    /\ \E i, j, k \in 1..Len(segments) :
          /\ i < j
          /\ segments[i].attribution_source = "explicit"
          /\ segments[i].speaker = <<"Anna">>
          /\ segments[j].attribution_source = "ai"
          /\ segments[j].speaker = Narrator
          /\ segments[j].kind = "dialogue"
          /\ segments[k].attribution_source = "default"
          /\ segments[k].speaker = <<"Anna">>

\* ------------------------------------------------------------------------
\* C30: after Stages 1 and 5 a segment has the scene-break pause of 1000 ms
\* only when a blank (empty or whitespace-only) paragraph of the input lies
\* between the end of the previous segment and the start of this one, also
\* when the previous segment is a narration segment merged from several
\* paragraphs.
C30_SceneBreakNeedsBlankParagraph ==
    AfterStage5 =>
        LET paragraphs == _split_paragraphs(text)
            offset(p) == StrLen(Join(SubSeq(paragraphs, 1, p - 1), <<NL>>))
                         + (IF p > 1 THEN 1 ELSE 0)
        IN \A i \in 2..Len(segments) :
              segments[i].pause_before_ms = PAUSE_SCENE_BREAK =>
                  \E p \in 1..Len(paragraphs) :
                      /\ Strip(paragraphs[p]) = <<>>
                      /\ segments[i - 1].char_offset_end <= offset(p)
                      /\ offset(p) + StrLen(paragraphs[p]) <= segments[i].char_offset_start

====
